---- MODULE Spec2Model ----
(***************************************************************************)
(* A model of the PSA integration gateway: the vendor adapters under       *)
(* app/clients (one HTTP request each, mapped to a result envelope) and    *)
(* the tools of server.py that call them.                                  *)
(*                                                                         *)
(* Python values are represented as follows.                               *)
(*   dict            a record whose fields are exactly the keys present    *)
(*   str             a sequence of tokens (one-character tokens where a    *)
(*                   claim looks inside the string)                        *)
(*   list            a sequence                                            *)
(*   None            NoneStr / NoneInt for an argument, JNull for a JSON   *)
(*                   null inside a decoded body                            *)
(*   raise           the record [raised |-> <exception type>]              *)
(***************************************************************************)
EXTENDS Integers, Sequences, FiniteSets, TLC

VARIABLES
    pc,        \* "idle", "await" (a request is in flight), "resume", "done"
    tool,      \* name of the tool being invoked
    args,      \* the arguments of the invocation
    requests,  \* the outbound requests issued by the invocation, in order
    calls,     \* the adapter calls that returned: method, outcome, envelope
    reply,     \* the transport outcome of the last request
    locals,    \* the local variables of the tool's coroutine
    result,    \* the value returned by the tool
    raised     \* the exception that left the tool, "none" if none did

vars == <<pc, tool, args, requests, calls, reply, locals, result, raised>>

-----------------------------------------------------------------------------
(* Bounds *)

MaxEntities == 2      \* longest collection a list endpoint answers with
MaxEntries == 2       \* longest time_entries argument
MaxDomains == 2       \* longest domain_list argument

-----------------------------------------------------------------------------
(* Python helpers *)

NoneStr == <<"\\None">>
NoneInt == -1
JNull == <<"\\null">>
NoResult == [none |-> TRUE]
NoReply == [kind |-> "none"]

\* dict.get(key, default)
Get(d, k, default) == IF k \in DOMAIN d THEN d[k] ELSE default

\* a truthiness that takes the empty string for a value
TruthyStr_EmptyIsTrue(s) == s # NoneStr

\* truthiness of a str / int argument: None, "" and 0 are falsy
TruthyStr(s) == s # NoneStr /\ s # <<>>
TruthyInt(i) == i # NoneInt /\ i # 0

\* bool(d.get("success")) for an envelope whose success, if present, is a bool
GetSuccess(d) == Get(d, "success", FALSE)

Raise(exc) == [raised |-> exc]
IsRaise(v) == "raised" \in DOMAIN v

DigitChars == <<"0", "1", "2", "3", "4", "5", "6", "7", "8", "9">>

RECURSIVE str_int(_)
\* str(n) for a natural number, one token per decimal digit
str_int(n) == IF n < 10 THEN <<DigitChars[n + 1]>>
              ELSE str_int(n \div 10) \o <<DigitChars[(n % 10) + 1]>>

\* sub in s, for two strings
Contains(sub, s) ==
    \E i \in 0..(Len(s) - Len(sub)) : SubSeq(s, i + 1, i + Len(sub)) = sub

-----------------------------------------------------------------------------
(* Transport: what one request can come back with.  A response carries the *)
(* status code and a body; the body has its text and, when the text is     *)
(* JSON, the decoded value and its JSON type.                              *)

Statuses == {200, 204, 400, 404, 500, 503}
Exceptions == {"ConnectError", "ReadTimeout"}

Body(text, type, value) ==
    [text |-> <<text>>, valid |-> type # "invalid", type |-> type, value |-> value]

EmptyBody == Body("", "invalid", JNull)
HtmlBody == Body("<html>Bad Gateway</html>", "invalid", JNull)
ObjectBody == Body("{id:1}", "object", [id |-> 1])
ArrayBody == Body("[{id:1},{id:2}]", "array", <<[id |-> 1], [id |-> 2]>>)
EmptyArrayBody == Body("[]", "array", <<>>)

GenericBodies == {ObjectBody, ArrayBody, EmptyArrayBody, HtmlBody}

Response(status, body) == [kind |-> "response", status |-> status, body |-> body]
Failure(exc) == [kind |-> "exception", exc |-> exc]

ErrorObjectBody == Body("{error:...}", "object", [error |-> <<"Ticket is closed">>])
ErrorBodies == {HtmlBody, ErrorObjectBody}

\* every outcome of one request whose 200 bodies are drawn from bodies
Outcomes(bodies) ==
    {Response(200, b) : b \in bodies}
        \cup {Response(s, b) : s \in Statuses \ {200, 204}, b \in ErrorBodies}
        \cup {Response(204, EmptyBody)}
        \cup {Failure(e) : e \in Exceptions}

\* str(e) of the exceptions the code catches
str_exc(exc) == <<exc>>
JSONDecodeError == <<"Expecting value: line 1 column 1 (char 0)">>
NoAttributeGet == <<"object has no attribute 'get'">>

-----------------------------------------------------------------------------
(* The shapes the adapter methods share *)

\* an except branch that reports the exception under message
ExceptException_NoError(msg) == [success |-> FALSE, message |-> msg]

\* except Exception as e: return {"success": False, "error": str(e)}
ExceptException(msg) == [success |-> FALSE, error |-> msg]

\* a generic failure that leaves the status code out
FailedWithStatus_NoCode(out) ==
    [success |-> FALSE,
     error |-> <<"Request failed">>,
     message |-> out.body.text]

\* {"success": False, "error": f"Failed with status {code}", "message": text}
FailedWithStatus(out) ==
    [success |-> FALSE,
     error |-> <<"Failed with status ">> \o str_int(out.status),
     message |-> out.body.text]

\* a method that accepts 200 only; ok is its 200 envelope, built from
\* response.json()
Only200(out, ok) ==
    IF out.kind = "exception" THEN ExceptException(str_exc(out.exc))
    ELSE IF out.status = 200
         THEN IF out.body.valid THEN ok ELSE ExceptException(JSONDecodeError)
         ELSE FailedWithStatus(out)

\* a method with special cases before the generic failure; special is a
\* function from the special status codes to their envelopes
WithSpecial(out, ok, special) ==
    IF out.kind = "exception" THEN ExceptException(str_exc(out.exc))
    ELSE IF out.status = 200
         THEN IF out.body.valid THEN ok ELSE ExceptException(JSONDecodeError)
         ELSE IF out.status \in DOMAIN special THEN special[out.status]
         ELSE FailedWithStatus(out)

json(out) == out.body.value
-----------------------------------------------------------------------------
(* Vendor adapters.  Each operator is one adapter method as a function of  *)
(* the outcome of its single request.                                      *)

\* a get_statuses that hands the text of the body on without decoding it
AutotaskClient_get_statuses_Undecoded(out) ==
    Only200(out, [success |-> TRUE, statuses |-> out.body.text])

AutotaskClient_get_statuses(out) ==
    Only200(out, [success |-> TRUE, statuses |-> json(out)])

AutotaskClient_get_priorities(out) ==
    Only200(out, [success |-> TRUE, priorities |-> json(out)])

AutotaskClient_get_issue_types(out) ==
    Only200(out, [success |-> TRUE, issue_types |-> json(out)])

AutotaskClient_get_ticket_categories(out) ==
    Only200(out, [success |-> TRUE, categories |-> json(out)])

AutotaskClient_get_ticket_types(out) ==
    Only200(out, [success |-> TRUE, ticket_types |-> json(out)])

AutotaskClient_get_queues(out) ==
    Only200(out, [success |-> TRUE, queues |-> json(out)])

AutotaskClient_get_queue_details(out) ==
    Only200(out, [success |-> TRUE, queue_details |-> json(out)])

AutotaskClient_get_sources(out) ==
    Only200(out, [success |-> TRUE, sources |-> json(out)])

AutotaskClient_get_all_companies(out) ==
    Only200(out, [success |-> TRUE, companies |-> json(out)])

AutotaskClient_get_all_contacts(out) ==
    Only200(out, [success |-> TRUE, contacts |-> json(out)])

AutotaskClient_get_all_resources(out) ==
    Only200(out, [success |-> TRUE, resources |-> json(out)])

AutotaskClient_merge_queues_and_issue_types(out) ==
    Only200(out, [success |-> TRUE, configuration |-> json(out)])

ConnectWiseClient_create_board(out) ==
    Only200(out, [success |-> TRUE, board |-> json(out)])

ConnectWiseClient_get_boards(out) ==
    Only200(out, [success |-> TRUE, boards |-> json(out)])

ConnectWiseClient_get_statuses(out) ==
    Only200(out, [success |-> TRUE, statuses |-> json(out)])

ConnectWiseClient_get_clients(out) ==
    Only200(out, [success |-> TRUE, clients |-> json(out)])

ConnectWiseClient_get_contacts(out) ==
    Only200(out, [success |-> TRUE, contacts |-> json(out)])

ConnectWiseClient_get_members(out) ==
    Only200(out, [success |-> TRUE, members |-> json(out)])

ConnectWiseClient_get_departments(out) ==
    Only200(out, [success |-> TRUE, departments |-> json(out)])

ConnectWiseClient_get_priorities(out) ==
    Only200(out, [success |-> TRUE, priorities |-> json(out)])

ConnectWiseClient_get_configuration(out) ==
    Only200(out, [success |-> TRUE, configuration |-> json(out)])

ConnectWiseClient_add_contact(out) ==
    Only200(out, [success |-> TRUE, contact |-> json(out)])

ConnectWiseTicketingClient_get_ticket_categorization(out) ==
    Only200(out, [success |-> TRUE, categorization |-> json(out)])

ConnectWiseTicketingClient_get_ticket_board_categorization(out) ==
    Only200(out, [success |-> TRUE, board_categorization |-> json(out)])

ConnectWiseTicketingClient_get_ticket_diagnostic_qa(out) ==
    Only200(out, [success |-> TRUE, diagnostic_qa |-> json(out)])

ConnectWiseTicketingClient_create_board_ticket(out) ==
    Only200(out, [success |-> TRUE, ticket |-> json(out)])

ConnectWiseTicketingClient_update_ticket(out) ==
    Only200(out, [success |-> TRUE, updated_ticket |-> json(out)])

ConnectWiseTicketingClient_get_ticket_by_id(out) ==
    Only200(out, [success |-> TRUE, ticket |-> json(out)])

ConnectWiseTicketingClient_get_ticket_notes(out) ==
    Only200(out, [success |-> TRUE, notes |-> json(out)])

ConnectWiseTicketingClient_add_note_to_ticket(out) ==
    Only200(out, [success |-> TRUE, note |-> json(out)])

\* 200 answers a fixed message; the body is never decoded
ConnectWiseTicketingClient_complete_ticket(out) ==
    IF out.kind = "exception" THEN ExceptException(str_exc(out.exc))
    ELSE IF out.status = 200
         THEN [success |-> TRUE, message |-> <<"Ticket completed successfully">>]
         ELSE FailedWithStatus(out)

\* a get_clients that reads 404 as an empty collection
PSAInitializationClient_get_clients_404Empty(out) ==
    IF out.kind = "response" /\ out.status \in {204, 404}
    THEN [success |-> TRUE, clients |-> <<>>, message |-> <<"No clients found">>]
    ELSE Only200(out, [success |-> TRUE, clients |-> json(out)])

\* the 204 branch of the generic-PSA list methods comes before the 200 branch
PSAInitializationClient_get_clients(out) ==
    IF out.kind = "response" /\ out.status = 204
    THEN [success |-> TRUE, clients |-> <<>>, message |-> <<"No clients found">>]
    ELSE Only200(out, [success |-> TRUE, clients |-> json(out)])

\* a get_contacts that knows no 204
PSAInitializationClient_get_contacts_No204(out) ==
    Only200(out, [success |-> TRUE, contacts |-> json(out)])

PSAInitializationClient_get_contacts(out) ==
    IF out.kind = "response" /\ out.status = 204
    THEN [success |-> TRUE, contacts |-> <<>>, message |-> <<"No contacts found">>]
    ELSE Only200(out, [success |-> TRUE, contacts |-> json(out)])

PSAInitializationClient_get_members(out) ==
    IF out.kind = "response" /\ out.status = 204
    THEN [success |-> TRUE, members |-> <<>>, message |-> <<"No members found">>]
    ELSE Only200(out, [success |-> TRUE, members |-> json(out)])

PSAInitializationClient_add_contact(out) ==
    WithSpecial(out, [success |-> TRUE, contact |-> json(out)],
        404 :> [success |-> FALSE,
                error |-> <<"PSA integration not found or contact creation failed">>,
                message |-> <<"No PSA integration configured for this domain">>])

BadRequest(message) ==
    [success |-> FALSE, error |-> <<"Bad Request">>, message |-> message]

NotFound(message) ==
    [success |-> FALSE, error |-> <<"Not Found">>, message |-> message]

PSATicketingClient_get_ticket_diagnostic_qa(out) ==
    WithSpecial(out, [success |-> TRUE, diagnostic_qa |-> json(out)],
        400 :> BadRequest(<<"Either userId or techId must be provided">>))

PSATicketingClient_create_ticket(out) ==
    WithSpecial(out, [success |-> TRUE, ticket |-> json(out)],
        400 :> BadRequest(out.body.text))

PSATicketingClient_add_notes_to_ticket(out) ==
    WithSpecial(out, [success |-> TRUE, result |-> json(out)],
        400 :> BadRequest(out.body.text))

PSATicketingClient_get_ticket_notes(out) ==
    WithSpecial(out, [success |-> TRUE, notes |-> json(out)],
        404 :> NotFound(<<"Ticket or notes not found">>))

PSATicketingClient_close_ticket(out) ==
    Only200(out, [success |-> TRUE, result |-> json(out)])

PSATicketingClient_get_ticket_status(out) ==
    WithSpecial(out, [success |-> TRUE, status |-> json(out)],
        (404 :> NotFound(<<"Ticket not found">>))
            @@ (400 :> BadRequest(<<"Ticket ID is required">>)))

\* result = response.json(); result.get(...) needs a JSON object; any
\* exception inside the try block becomes {"success": False, "error": str(e)}
PSATimeEntryClient_create_time_entry(out) ==
    IF out.kind = "exception" THEN ExceptException(str_exc(out.exc))
    ELSE IF out.status \in {200, 500}
    THEN IF ~out.body.valid THEN ExceptException(JSONDecodeError)
         ELSE IF out.body.type # "object" THEN ExceptException(NoAttributeGet)
         ELSE IF out.status = 200
              THEN [success |-> Get(json(out), "success", TRUE),
                    time_entry |-> json(out),
                    message |-> <<"Time entry created successfully">>]
              ELSE [success |-> FALSE,
                    error |-> Get(json(out), "error", <<"Time entry creation failed">>),
                    details |-> json(out)]
    ELSE FailedWithStatus(out)

PSATimeEntryClient_check_service_health(out) ==
    IF out.kind = "exception"
    THEN [success |-> FALSE, healthy |-> FALSE,
          error |-> <<"Health check failed: ">> \o str_exc(out.exc)]
    ELSE IF out.status = 200
    THEN IF ~out.body.valid
         THEN [success |-> FALSE, healthy |-> FALSE,
               error |-> <<"Health check failed: ">> \o JSONDecodeError]
         ELSE IF out.body.type # "object"
         THEN [success |-> FALSE, healthy |-> FALSE,
               error |-> <<"Health check failed: ">> \o NoAttributeGet]
         ELSE [success |-> TRUE,
               healthy |-> Get(json(out), "status", JNull) = <<"UP">>,
               service |-> Get(json(out), "service", JNull),
               timestamp |-> Get(json(out), "timestamp", JNull),
               status |-> Get(json(out), "status", JNull)]
    ELSE [success |-> FALSE, healthy |-> FALSE,
          error |-> <<"Health check failed with status ">> \o str_int(out.status)]

\* The sync adapters name httpx.TimeoutError in their first except clause.
\* httpx exports no such attribute (its timeout class is TimeoutException),
\* so matching any exception raised inside the try block evaluates the
\* clause and raises AttributeError, which leaves the method.
SyncExcept(out) == Raise("AttributeError")

PSASyncClient_sync_tickets_for_domain(msp_custom_domain, out) ==
    IF out.kind = "exception" THEN SyncExcept(out)
    ELSE IF out.status = 200
    THEN [success |-> TRUE, message |-> out.body.text, domain |-> msp_custom_domain]
    ELSE IF out.status = 400
    THEN BadRequest(out.body.text) @@ [domain |-> msp_custom_domain]
    ELSE FailedWithStatus(out) @@ [domain |-> msp_custom_domain]

PSASyncClient_sync_all_domains(out) ==
    IF out.kind = "exception" THEN SyncExcept(out)
    ELSE IF out.status = 200
    THEN [success |-> TRUE, message |-> out.body.text, scope |-> <<"all_domains">>]
    ELSE FailedWithStatus(out) @@ [scope |-> <<"all_domains">>]

ConnectWiseSyncClient_sync_clients_contacts(out) ==
    IF out.kind = "exception" THEN SyncExcept(out)
    ELSE IF out.status = 200
    THEN IF out.body.valid
         THEN [success |-> TRUE, sync_result |-> json(out),
               message |-> <<"Clients and contacts synced successfully">>]
         ELSE SyncExcept(out)
    ELSE FailedWithStatus(out)

ConnectWiseSyncClient_sync_board_tickets(board_sync_requests, out) ==
    IF out.kind = "exception" THEN SyncExcept(out)
    ELSE IF out.status = 200
    THEN [success |-> TRUE,
          message |-> <<"Board tickets sync initiated successfully">>,
          boards_synced |-> Len(board_sync_requests)]
    ELSE FailedWithStatus(out)

UpperLetters == <<"A", "B", "C", "D", "E", "F", "G", "H", "I", "J", "K", "L", "M",
                  "N", "O", "P", "Q", "R", "S", "T", "U", "V", "W", "X", "Y", "Z">>
LowerLetters == <<"a", "b", "c", "d", "e", "f", "g", "h", "i", "j", "k", "l", "m",
                  "n", "o", "p", "q", "r", "s", "t", "u", "v", "w", "x", "y", "z">>

\* str.lower(), token by token
lower(s) ==
    [i \in 1..Len(s) |->
        IF \E k \in 1..26 : UpperLetters[k] = s[i]
        THEN LowerLetters[CHOOSE k \in 1..26 : UpperLetters[k] = s[i]]
        ELSE s[i]]

WeaviateClient_test_connection(out) ==
    IF out.kind = "exception"
    THEN [connected |-> FALSE,
          message |-> <<"Connection failed: ">> \o str_exc(out.exc),
          error |-> str_exc(out.exc)]
    ELSE [connected |-> out.status = 200,
          message |-> IF out.status = 200 THEN out.body.text
                      ELSE <<"Failed with status ">> \o str_int(out.status),
          status_code |-> out.status]

WeaviateClient_check_schema_exists(out) ==
    IF out.kind = "exception" THEN ExceptException(str_exc(out.exc))
    ELSE IF out.status = 200
    THEN [success |-> TRUE,
          schema_exists |-> Contains(<<"t", "r", "u", "e">>, lower(out.body.text)),
          raw_response |-> out.body.text]
    ELSE [success |-> FALSE,
          error |-> <<"Failed with status ">> \o str_int(out.status),
          response |-> out.body.text]

WeaviateClient_create_schema(out) ==
    IF out.kind = "exception" THEN ExceptException(str_exc(out.exc))
    ELSE [success |-> out.status = 200, message |-> out.body.text,
          status_code |-> out.status]

WeaviateClient_delete_schema(out) ==
    IF out.kind = "exception" THEN ExceptException(str_exc(out.exc))
    ELSE [success |-> out.status = 200, message |-> out.body.text,
          status_code |-> out.status]

\* the two fixed rows of the synthetic-data mode
MockTickets ==
    <<[id |-> <<"1">>, title |-> <<"Printer not working">>, status |-> <<"Open">>,
       priority |-> <<"High">>, created_at |-> <<"2024-01-15T10:00:00Z">>,
       updated_at |-> <<"2024-01-15T14:30:00Z">>],
      [id |-> <<"2">>, title |-> <<"Email issues">>, status |-> <<"In Progress">>,
       priority |-> <<"Medium">>, created_at |-> <<"2024-01-14T09:00:00Z">>,
       updated_at |-> <<"2024-01-15T11:00:00Z">>]>>

\* returns a list of rows, not an envelope; raise_for_status() raises
\* HTTPStatusError on a 4xx/5xx answer
PSAClient_get_tickets_by_domain(use_mock, out) ==
    IF use_mock THEN MockTickets
    ELSE IF out.kind = "exception"
    THEN <<[error |-> <<"Connection error">>, message |-> str_exc(out.exc)]>>
    ELSE IF out.status >= 400
    THEN <<[error |-> <<"HTTP error: ">> \o str_int(out.status),
            message |-> <<"HTTPStatusError">>]>>
    ELSE IF ~out.body.valid
    THEN <<[error |-> <<"Connection error">>, message |-> JSONDecodeError]>>
    ELSE json(out)

\* Ticket(**row): the required fields must be present and not null
TicketRequired == {"id", "title", "status", "created_at", "updated_at"}

TicketValid(row) ==
    /\ TicketRequired \subseteq DOMAIN row
    /\ \A f \in TicketRequired : row[f] # JNull

\* Ticket(**row).model_dump()
Ticket_model_dump(row) ==
    [id |-> row.id, title |-> row.title, status |-> row.status,
     priority |-> Get(row, "priority", JNull),
     created_at |-> row.created_at, updated_at |-> row.updated_at]

-----------------------------------------------------------------------------
(* Dispatch of an adapter method by name *)

AdapterMethods ==
    {"AutotaskClient.get_statuses", "AutotaskClient.get_priorities",
     "AutotaskClient.get_issue_types",
     "AutotaskClient.get_ticket_categories",
     "AutotaskClient.get_ticket_types", "AutotaskClient.get_queues",
     "AutotaskClient.get_queue_details", "AutotaskClient.get_sources",
     "AutotaskClient.get_all_companies", "AutotaskClient.get_all_contacts",
     "AutotaskClient.get_all_resources",
     "AutotaskClient.merge_queues_and_issue_types",
     "ConnectWiseClient.create_board", "ConnectWiseClient.get_boards",
     "ConnectWiseClient.get_statuses", "ConnectWiseClient.get_clients",
     "ConnectWiseClient.get_contacts", "ConnectWiseClient.get_members",
     "ConnectWiseClient.get_departments", "ConnectWiseClient.get_priorities",
     "ConnectWiseClient.get_configuration", "ConnectWiseClient.add_contact",
     "ConnectWiseTicketingClient.get_ticket_categorization",
     "ConnectWiseTicketingClient.get_ticket_board_categorization",
     "ConnectWiseTicketingClient.get_ticket_diagnostic_qa",
     "ConnectWiseTicketingClient.create_board_ticket",
     "ConnectWiseTicketingClient.update_ticket",
     "ConnectWiseTicketingClient.get_ticket_by_id",
     "ConnectWiseTicketingClient.get_ticket_notes",
     "ConnectWiseTicketingClient.add_note_to_ticket",
     "ConnectWiseTicketingClient.complete_ticket",
     "PSAInitializationClient.get_clients",
     "PSAInitializationClient.get_contacts",
     "PSAInitializationClient.get_members",
     "PSAInitializationClient.add_contact",
     "PSATicketingClient.get_ticket_diagnostic_qa",
     "PSATicketingClient.create_ticket",
     "PSATicketingClient.add_notes_to_ticket",
     "PSATicketingClient.get_ticket_notes",
     "PSATicketingClient.close_ticket",
     "PSATicketingClient.get_ticket_status",
     "PSATimeEntryClient.create_time_entry",
     "PSATimeEntryClient.check_service_health",
     "PSASyncClient.sync_tickets_for_domain",
     "PSASyncClient.sync_all_domains",
     "ConnectWiseSyncClient.sync_clients_contacts",
     "ConnectWiseSyncClient.sync_board_tickets",
     "WeaviateClient.test_connection", "WeaviateClient.check_schema_exists",
     "WeaviateClient.create_schema", "WeaviateClient.delete_schema"}

\* the envelope method m answers with when its request ends in out;
\* a holds the arguments of the call
Adapter(m, a, out) ==
    CASE m = "AutotaskClient.get_statuses" ->
            AutotaskClient_get_statuses(out)
      [] m = "AutotaskClient.get_priorities" ->
            AutotaskClient_get_priorities(out)
      [] m = "AutotaskClient.get_issue_types" ->
            AutotaskClient_get_issue_types(out)
      [] m = "AutotaskClient.get_ticket_categories" ->
            AutotaskClient_get_ticket_categories(out)
      [] m = "AutotaskClient.get_ticket_types" ->
            AutotaskClient_get_ticket_types(out)
      [] m = "AutotaskClient.get_queues" ->
            AutotaskClient_get_queues(out)
      [] m = "AutotaskClient.get_queue_details" ->
            AutotaskClient_get_queue_details(out)
      [] m = "AutotaskClient.get_sources" ->
            AutotaskClient_get_sources(out)
      [] m = "AutotaskClient.get_all_companies" ->
            AutotaskClient_get_all_companies(out)
      [] m = "AutotaskClient.get_all_contacts" ->
            AutotaskClient_get_all_contacts(out)
      [] m = "AutotaskClient.get_all_resources" ->
            AutotaskClient_get_all_resources(out)
      [] m = "AutotaskClient.merge_queues_and_issue_types" ->
            AutotaskClient_merge_queues_and_issue_types(out)
      [] m = "ConnectWiseClient.create_board" ->
            ConnectWiseClient_create_board(out)
      [] m = "ConnectWiseClient.get_boards" ->
            ConnectWiseClient_get_boards(out)
      [] m = "ConnectWiseClient.get_statuses" ->
            ConnectWiseClient_get_statuses(out)
      [] m = "ConnectWiseClient.get_clients" ->
            ConnectWiseClient_get_clients(out)
      [] m = "ConnectWiseClient.get_contacts" ->
            ConnectWiseClient_get_contacts(out)
      [] m = "ConnectWiseClient.get_members" ->
            ConnectWiseClient_get_members(out)
      [] m = "ConnectWiseClient.get_departments" ->
            ConnectWiseClient_get_departments(out)
      [] m = "ConnectWiseClient.get_priorities" ->
            ConnectWiseClient_get_priorities(out)
      [] m = "ConnectWiseClient.get_configuration" ->
            ConnectWiseClient_get_configuration(out)
      [] m = "ConnectWiseClient.add_contact" ->
            ConnectWiseClient_add_contact(out)
      [] m = "ConnectWiseTicketingClient.get_ticket_categorization" ->
            ConnectWiseTicketingClient_get_ticket_categorization(out)
      [] m = "ConnectWiseTicketingClient.get_ticket_board_categorization" ->
            ConnectWiseTicketingClient_get_ticket_board_categorization(out)
      [] m = "ConnectWiseTicketingClient.get_ticket_diagnostic_qa" ->
            ConnectWiseTicketingClient_get_ticket_diagnostic_qa(out)
      [] m = "ConnectWiseTicketingClient.create_board_ticket" ->
            ConnectWiseTicketingClient_create_board_ticket(out)
      [] m = "ConnectWiseTicketingClient.update_ticket" ->
            ConnectWiseTicketingClient_update_ticket(out)
      [] m = "ConnectWiseTicketingClient.get_ticket_by_id" ->
            ConnectWiseTicketingClient_get_ticket_by_id(out)
      [] m = "ConnectWiseTicketingClient.get_ticket_notes" ->
            ConnectWiseTicketingClient_get_ticket_notes(out)
      [] m = "ConnectWiseTicketingClient.add_note_to_ticket" ->
            ConnectWiseTicketingClient_add_note_to_ticket(out)
      [] m = "ConnectWiseTicketingClient.complete_ticket" ->
            ConnectWiseTicketingClient_complete_ticket(out)
      [] m = "PSAInitializationClient.get_clients" ->
            PSAInitializationClient_get_clients(out)
      [] m = "PSAInitializationClient.get_contacts" ->
            PSAInitializationClient_get_contacts(out)
      [] m = "PSAInitializationClient.get_members" ->
            PSAInitializationClient_get_members(out)
      [] m = "PSAInitializationClient.add_contact" ->
            PSAInitializationClient_add_contact(out)
      [] m = "PSATicketingClient.get_ticket_diagnostic_qa" ->
            PSATicketingClient_get_ticket_diagnostic_qa(out)
      [] m = "PSATicketingClient.create_ticket" ->
            PSATicketingClient_create_ticket(out)
      [] m = "PSATicketingClient.add_notes_to_ticket" ->
            PSATicketingClient_add_notes_to_ticket(out)
      [] m = "PSATicketingClient.get_ticket_notes" ->
            PSATicketingClient_get_ticket_notes(out)
      [] m = "PSATicketingClient.close_ticket" ->
            PSATicketingClient_close_ticket(out)
      [] m = "PSATicketingClient.get_ticket_status" ->
            PSATicketingClient_get_ticket_status(out)
      [] m = "PSATimeEntryClient.create_time_entry" ->
            PSATimeEntryClient_create_time_entry(out)
      [] m = "PSATimeEntryClient.check_service_health" ->
            PSATimeEntryClient_check_service_health(out)
      [] m = "PSASyncClient.sync_tickets_for_domain" ->
            PSASyncClient_sync_tickets_for_domain(a.msp_custom_domain, out)
      [] m = "PSASyncClient.sync_all_domains" ->
            PSASyncClient_sync_all_domains(out)
      [] m = "ConnectWiseSyncClient.sync_clients_contacts" ->
            ConnectWiseSyncClient_sync_clients_contacts(out)
      [] m = "ConnectWiseSyncClient.sync_board_tickets" ->
            ConnectWiseSyncClient_sync_board_tickets(a.board_sync_requests, out)
      [] m = "WeaviateClient.test_connection" ->
            WeaviateClient_test_connection(out)
      [] m = "WeaviateClient.check_schema_exists" ->
            WeaviateClient_check_schema_exists(out)
      [] m = "WeaviateClient.create_schema" ->
            WeaviateClient_create_schema(out)
      [] m = "WeaviateClient.delete_schema" ->
            WeaviateClient_delete_schema(out)

-----------------------------------------------------------------------------
(* The bodies the backend answers the modelled endpoints with *)

SeqsUpTo(S, n) == UNION {[1..k -> S] : k \in 0..n}

\* entities of the generic-PSA list endpoints; the strings are spelled out
\* character by character because the search looks inside them
Entities ==
    {[id |-> 1, name |-> <<"A", "c", "m", "e">>],
     [id |-> 2, firstName |-> <<"B", "o">>, lastName |-> <<"N", "g">>,
      companyName |-> <<"A", "C", "M", "E">>],
     [id |-> 3, name |-> <<"Z", "e", "d">>, email |-> JNull],
     [id |-> 4, name |-> <<"N", "o", "n", "a">>, email |-> <<"n", "@", "x">>]}

EntityBodies ==
    {Body("[...]", "array", es) : es \in SeqsUpTo(Entities, MaxEntities)}
        \cup {ObjectBody, HtmlBody}

TimeEntryBodies ==
    {Body("{success:true,id:11}", "object", [success |-> TRUE, id |-> 11]),
     Body("{success:false}", "object",
          [success |-> FALSE, error |-> <<"Ticket is closed">>]),
     Body("{id:12}", "object", [id |-> 12]),
     EmptyArrayBody,
     HtmlBody}

CategorizationBodies ==
    {Body("{full}", "object",
          [boardId |-> 2, summary |-> <<"VPN down">>, categoryId |-> 5,
           subcategoryId |-> 6, priorityId |-> 3, statusId |-> 1]),
     Body("{partial}", "object",
          [boardId |-> 2, priorityId |-> 0, categoryId |-> NoneInt]),
     Body("{}", "object", <<>>),
     ArrayBody,
     HtmlBody}

SchemaBodies ==
    {[text |-> <<"t", "r", "u", "e">>, valid |-> TRUE, type |-> "bool", value |-> TRUE],
     [text |-> <<"T", "r", "u", "e">>, valid |-> FALSE, type |-> "invalid", value |-> JNull],
     [text |-> <<"f", "a", "l", "s", "e">>, valid |-> TRUE, type |-> "bool",
      value |-> FALSE]}

TicketRow ==
    [id |-> <<"7">>, title |-> <<"VPN down">>, status |-> <<"Open">>,
     created_at |-> <<"2024-01-15T10:00:00Z">>,
     updated_at |-> <<"2024-01-15T14:30:00Z">>]

TicketBodies ==
    {Body("[ticket]", "array", <<TicketRow>>),
     Body("[ticket,ticket]", "array", <<TicketRow, TicketRow @@ [priority |-> <<"High">>]>>),
     Body("[no title]", "array", <<[id |-> <<"8">>, status |-> <<"Open">>]>>),
     EmptyArrayBody,
     ObjectBody,
     HtmlBody}

\* the 200 bodies the three fetches of the overview are answered with
OverviewBodies ==
    {Body("[...]", "array", es) :
        es \in {<<>>, <<[id |-> 1, name |-> <<"A", "c", "m", "e">>]>>,
                <<[id |-> 2, firstName |-> <<"B", "o">>, lastName |-> <<"N", "g">>,
                   companyName |-> <<"A", "C", "M", "E">>],
                  [id |-> 3, name |-> <<"Z", "e", "d">>, email |-> JNull]>>}}
        \cup {ObjectBody, HtmlBody}

BodiesFor(m) ==
    CASE m \in {"PSAInitializationClient.get_clients",
                "PSAInitializationClient.get_contacts",
                "PSAInitializationClient.get_members"} -> EntityBodies
      [] m = "PSATimeEntryClient.create_time_entry" -> TimeEntryBodies
      [] m \in {"ConnectWiseTicketingClient.get_ticket_board_categorization",
                "PSATicketingClient.get_ticket_diagnostic_qa"} -> CategorizationBodies
      [] m = "WeaviateClient.check_schema_exists" -> SchemaBodies
      [] m = "PSAClient.get_tickets_by_domain" -> TicketBodies
      [] OTHER -> GenericBodies

-----------------------------------------------------------------------------
(* The tools.  One invocation runs at a time; a tool suspends at each       *)
(* await until the transport delivers the outcome of the request.           *)

Domains == {<<"etech7">>, <<"msp2">>}

Init ==
    /\ pc = "idle"
    /\ tool = "none"
    /\ args = <<>>
    /\ requests = <<>>
    /\ calls = <<>>
    /\ reply = NoReply
    /\ locals = <<>>
    /\ result = NoResult
    /\ raised = "none"

\* the tool is entered with arguments a
Start(t, a) == pc = "idle" /\ tool' = t /\ args' = a

\* an adapter that issues its request a second time
Send_Reissued(req) ==
    /\ requests' = requests \o <<req, req>>
    /\ reply' = NoReply
    /\ pc' = "await"

\* await client.<method>(...): the adapter issues its request
Send(req) ==
    /\ requests' = Append(requests, req)
    /\ reply' = NoReply
    /\ pc' = "await"

\* the adapter method returned env for the request that was in flight
Called(env) ==
    calls' = Append(calls, [adapter |-> requests[Len(requests)].adapter,
                            out |-> reply, env |-> env])

\* return v
Return(v) == pc' = "done" /\ result' = v /\ raised' = "none"

\* an exception leaves the tool
Throw(exc) == pc' = "done" /\ result' = NoResult /\ raised' = exc

\* the backend answers the request in flight, or the transport fails
Transport ==
    /\ pc = "await"
    /\ \E out \in Outcomes(IF tool = "get_psa_overview" THEN OverviewBodies
                           ELSE BodiesFor(requests[Len(requests)].adapter)) :
          reply' = out
    /\ pc' = "resume"
    /\ UNCHANGED <<tool, args, requests, calls, locals, result, raised>>

\* a server that keeps the answers of the adapters from one call to the next
Retire_CallsKept ==
    /\ pc = "done"
    /\ pc' = "idle"
    /\ tool' = "none"
    /\ args' = <<>>
    /\ requests' = <<>>
    /\ reply' = NoReply
    /\ locals' = <<>>
    /\ result' = NoResult
    /\ raised' = "none"
    /\ UNCHANGED calls

\* the caller takes the result; nothing of the invocation is kept
Retire ==
    /\ pc = "done"
    /\ pc' = "idle"
    /\ tool' = "none"
    /\ args' = <<>>
    /\ requests' = <<>>
    /\ calls' = <<>>
    /\ reply' = NoReply
    /\ locals' = <<>>
    /\ result' = NoResult
    /\ raised' = "none"

\* the tools that only forward to one adapter method, e.g.
\* get_autotask_statuses -> AutotaskClient.get_statuses
InvokeAdapterTool ==
    \E m \in AdapterMethods, d \in Domains :
        /\ Start("adapter_tool",
                 [method |-> m, msp_custom_domain |-> d,
                  board_sync_requests |-> <<[boardId |-> 1, boardName |-> <<"Service">>]>>])
        /\ Send([adapter |-> m])
        /\ UNCHANGED <<calls, locals, result, raised>>

ResumeAdapterTool ==
    /\ pc = "resume"
    /\ tool = "adapter_tool"
    /\ LET env == Adapter(args.method, args, reply)
       IN  /\ Called(env)
           /\ IF IsRaise(env) THEN Throw(env.raised) ELSE Return(env)
    /\ UNCHANGED <<tool, args, requests, reply, locals>>

\* get_tickets_by_domain: the rows of the adapter are validated one by one
InvokeGetTicketsByDomain ==
    \E d \in Domains, use_mock \in BOOLEAN :
        /\ Start("get_tickets_by_domain", [domain |-> d, use_mock |-> use_mock])
        /\ IF use_mock
           THEN /\ Return([i \in 1..Len(MockTickets) |-> Ticket_model_dump(MockTickets[i])])
                /\ UNCHANGED <<requests, reply>>
           ELSE /\ Send([adapter |-> "PSAClient.get_tickets_by_domain",
                         params |-> [domain |-> d]])
                /\ UNCHANGED <<result, raised>>
        /\ UNCHANGED <<calls, locals>>

ResumeGetTicketsByDomain ==
    /\ pc = "resume"
    /\ tool = "get_tickets_by_domain"
    /\ LET raw_tickets == PSAClient_get_tickets_by_domain(FALSE, reply)
           \* a decoded body that is no array is iterated all the same
           is_list == \/ reply.kind = "exception"
                      \/ reply.status >= 400
                      \/ ~reply.body.valid
                      \/ reply.body.type = "array"
       IN  /\ Called(raw_tickets)
           /\ IF ~is_list THEN Throw("TypeError")
              ELSE IF \A i \in 1..Len(raw_tickets) : TicketValid(raw_tickets[i])
              THEN Return([i \in 1..Len(raw_tickets) |->
                              Ticket_model_dump(raw_tickets[i])])
              ELSE Throw("ValidationError")
    /\ UNCHANGED <<tool, args, requests, reply, locals>>

-----------------------------------------------------------------------------
(* Ticket tools of the generic PSA and of ConnectWise *)

UserIds == {NoneStr, <<>>, <<"u1">>}
TechIds == {NoneStr, <<>>, <<"t1">>}
CompanyIds == {NoneInt, 0, 7}
IssueDescription == <<"VPN is down since this morning">>
SummaryLimit == 100

\* s[:n]
Prefix(s, n) == SubSeq(s, 1, IF Len(s) < n THEN Len(s) ELSE n)

\* a request builder that sends every optional field, given or not
Optional_Always(cond, key, value) == key :> value

\* {key: value} when the condition holds, nothing otherwise
Optional(cond, key, value) == IF cond THEN key :> value ELSE <<>>

ValidationError(message) ==
    [success |-> FALSE, error |-> <<"Validation Error">>, message |-> message]

\* the request of PSATicketingClient.get_ticket_diagnostic_qa
DiagnosticQaRequest(msp_custom_domain, user_message, user_id, tech_id) ==
    [adapter |-> "PSATicketingClient.get_ticket_diagnostic_qa",
     json |-> [mspCustomDomain |-> msp_custom_domain, userMessage |-> user_message]
                @@ Optional(TruthyStr(user_id), "userId", user_id)
                @@ Optional(TruthyStr(tech_id), "techId", tech_id)]

\* the request of PSATicketingClient.create_ticket
CreateTicketRequest(msp_custom_domain, ticket_request) ==
    [adapter |-> "PSATicketingClient.create_ticket",
     params |-> [mspCustomDomain |-> msp_custom_domain],
     json |-> ticket_request]

\* the request of ConnectWiseTicketingClient.get_ticket_board_categorization
BoardCategorizationRequest(msp_custom_domain, user_id, user_message) ==
    [adapter |-> "ConnectWiseTicketingClient.get_ticket_board_categorization",
     json |-> [mspCustomDomain |-> msp_custom_domain, userId |-> user_id,
               userMessage |-> user_message]]

\* the request of ConnectWiseTicketingClient.create_board_ticket
CreateBoardTicketRequest(msp_custom_domain, ticket_details, user_id) ==
    [adapter |-> "ConnectWiseTicketingClient.create_board_ticket",
     params |-> [mspCustomDomain |-> msp_custom_domain]
                  @@ Optional(TruthyStr(user_id), "userId", user_id),
     json |-> ticket_details]

\* the guard of get_psa_ticket_diagnostic
DiagnosticArgsInvalid(user_id, tech_id) ==
    ~TruthyStr(user_id) /\ ~TruthyStr(tech_id)

\* a guard that forgets psa_company_id
TicketArgsInvalid_NoCompany(user_id, tech_id, psa_company_id) ==
    ~TruthyStr(user_id) /\ ~TruthyStr(tech_id)

\* the guard of create_psa_ticket and create_psa_ticket_with_ai
TicketArgsInvalid(user_id, tech_id, psa_company_id) ==
    ~TruthyStr(user_id) /\ (~TruthyStr(tech_id) \/ ~TruthyInt(psa_company_id))

InvokeGetPsaTicketDiagnostic ==
    \E d \in Domains, user_id \in UserIds, tech_id \in TechIds :
        /\ Start("get_psa_ticket_diagnostic",
                 [msp_custom_domain |-> d, user_message |-> IssueDescription,
                  user_id |-> user_id, tech_id |-> tech_id])
        /\ IF DiagnosticArgsInvalid(user_id, tech_id)
           THEN /\ Return(ValidationError(<<"Either user_id or tech_id must be provided">>))
                /\ UNCHANGED <<requests, reply>>
           ELSE /\ Send(DiagnosticQaRequest(d, IssueDescription, user_id, tech_id))
                /\ UNCHANGED <<result, raised>>
        /\ UNCHANGED <<calls, locals>>

ResumeGetPsaTicketDiagnostic ==
    /\ pc = "resume"
    /\ tool = "get_psa_ticket_diagnostic"
    /\ LET env == PSATicketingClient_get_ticket_diagnostic_qa(reply)
       IN  Called(env) /\ Return(env)
    /\ UNCHANGED <<tool, args, requests, reply, locals>>

\* the ticket_request create_psa_ticket builds from its arguments
PsaTicketRequest(a) ==
    [psaType |-> a.psa_type, summary |-> a.summary,
     description |-> a.description, boardId |-> a.board_id]
        @@ Optional(TruthyStr(a.user_id), "userId", a.user_id)
        @@ Optional(TruthyStr(a.tech_id), "techId", a.tech_id)
        @@ Optional(TruthyInt(a.psa_company_id), "psaCompanyId", a.psa_company_id)
        @@ Optional(TruthyInt(a.priority_id), "priorityId", a.priority_id)
        @@ Optional(TruthyInt(a.category_id), "categoryId", a.category_id)
        @@ Optional(TruthyInt(a.subcategory_id), "subcategoryId", a.subcategory_id)

InvokeCreatePsaTicket ==
    \E user_id \in UserIds, tech_id \in TechIds, psa_company_id \in CompanyIds,
       priority_id \in {NoneInt, 0, 3}, category_id \in {NoneInt, 5} :
        LET a == [msp_custom_domain |-> <<"etech7">>, psa_type |-> <<"ConnectWise">>,
                  summary |-> <<"VPN down">>, description |-> IssueDescription,
                  board_id |-> 1, user_id |-> user_id, tech_id |-> tech_id,
                  psa_company_id |-> psa_company_id, priority_id |-> priority_id,
                  category_id |-> category_id, subcategory_id |-> NoneInt]
        IN  /\ Start("create_psa_ticket", a)
            /\ IF TicketArgsInvalid(user_id, tech_id, psa_company_id)
               THEN /\ Return(ValidationError(
                          <<"If userId is null, techId and psaCompanyId are mandatory">>))
                    /\ UNCHANGED <<requests, reply>>
               ELSE /\ Send(CreateTicketRequest(a.msp_custom_domain, PsaTicketRequest(a)))
                    /\ UNCHANGED <<result, raised>>
            /\ UNCHANGED <<calls, locals>>

ResumeCreatePsaTicket ==
    /\ pc = "resume"
    /\ tool = "create_psa_ticket"
    /\ LET env == PSATicketingClient_create_ticket(reply)
       IN  Called(env) /\ Return(env)
    /\ UNCHANGED <<tool, args, requests, reply, locals>>

\* a ticket_request that copies the suggested priority whatever its value
AiTicketRequest_PriorityCopied(a, qa_data) ==
    [psaType |-> a.psa_type,
     summary |-> Get(qa_data, "summary", Prefix(a.issue_description, SummaryLimit)),
     description |-> a.issue_description,
     boardId |-> Get(qa_data, "boardId", 1),
     userId |-> a.user_id, techId |-> a.tech_id, psaCompanyId |-> a.psa_company_id,
     priorityId |-> Get(qa_data, "priorityId", NoneInt)]
        @@ Optional(TruthyInt(Get(qa_data, "categoryId", NoneInt)),
                    "categoryId", Get(qa_data, "categoryId", NoneInt))
        @@ Optional(TruthyInt(Get(qa_data, "subcategoryId", NoneInt)),
                    "subcategoryId", Get(qa_data, "subcategoryId", NoneInt))

\* the ticket_request create_psa_ticket_with_ai builds from the diagnostic
AiTicketRequest(a, qa_data) ==
    [psaType |-> a.psa_type,
     summary |-> Get(qa_data, "summary", Prefix(a.issue_description, SummaryLimit)),
     description |-> a.issue_description,
     boardId |-> Get(qa_data, "boardId", 1),
     userId |-> a.user_id, techId |-> a.tech_id, psaCompanyId |-> a.psa_company_id]
        @@ Optional(TruthyInt(Get(qa_data, "priorityId", NoneInt)),
                    "priorityId", Get(qa_data, "priorityId", NoneInt))
        @@ Optional(TruthyInt(Get(qa_data, "categoryId", NoneInt)),
                    "categoryId", Get(qa_data, "categoryId", NoneInt))
        @@ Optional(TruthyInt(Get(qa_data, "subcategoryId", NoneInt)),
                    "subcategoryId", Get(qa_data, "subcategoryId", NoneInt))

InvokeCreatePsaTicketWithAi ==
    \E user_id \in UserIds, tech_id \in TechIds, psa_company_id \in CompanyIds :
        LET a == [msp_custom_domain |-> <<"etech7">>, psa_type |-> <<"Autotask">>,
                  issue_description |-> IssueDescription, user_id |-> user_id,
                  tech_id |-> tech_id, psa_company_id |-> psa_company_id]
        IN  /\ Start("create_psa_ticket_with_ai", a)
            /\ IF TicketArgsInvalid(user_id, tech_id, psa_company_id)
               THEN /\ Return(ValidationError(
                          <<"If userId is null, techId and psaCompanyId are mandatory">>))
                    /\ UNCHANGED <<requests, reply, locals>>
               ELSE /\ Send(DiagnosticQaRequest(a.msp_custom_domain,
                              a.issue_description, user_id, tech_id))
                    /\ locals' = [step |-> "diagnostic"]
                    /\ UNCHANGED <<result, raised>>
            /\ UNCHANGED calls

\* after the diagnostic: return its failure as it is, or build the ticket
\* request; qa_data.get(...) needs a JSON object
ResumeAiDiagnostic ==
    /\ pc = "resume"
    /\ tool = "create_psa_ticket_with_ai"
    /\ locals.step = "diagnostic"
    /\ LET diagnostic_result == PSATicketingClient_get_ticket_diagnostic_qa(reply)
           qa_data == Get(diagnostic_result, "diagnostic_qa", <<>>)
       IN  /\ Called(diagnostic_result)
           /\ IF ~GetSuccess(diagnostic_result)
              THEN Return(diagnostic_result) /\ UNCHANGED <<requests, reply, locals>>
              ELSE IF reply.body.type # "object"
              THEN Throw("AttributeError") /\ UNCHANGED <<requests, reply, locals>>
              ELSE /\ Send(CreateTicketRequest(args.msp_custom_domain,
                                               AiTicketRequest(args, qa_data)))
                   /\ locals' = [step |-> "create", qa_data |-> qa_data]
                   /\ UNCHANGED <<result, raised>>
    /\ UNCHANGED <<tool, args>>

ResumeAiCreate ==
    /\ pc = "resume"
    /\ tool = "create_psa_ticket_with_ai"
    /\ locals.step = "create"
    /\ LET create_result == PSATicketingClient_create_ticket(reply)
       IN  /\ Called(create_result)
           /\ Return(IF GetSuccess(create_result)
                     THEN create_result @@ [ai_categorization |-> locals.qa_data]
                     ELSE create_result)
    /\ UNCHANGED <<tool, args, requests, reply, locals>>

\* the ticket_details create_smart_ticket builds from the categorization
SmartTicketDetails(a, board_cat) ==
    [boardId |-> Get(board_cat, "boardId", NoneInt),
     summary |-> Get(board_cat, "summary", Prefix(a.issue_description, SummaryLimit)),
     description |-> a.issue_description,
     companyId |-> a.company_id]
        @@ Optional(TruthyInt(a.contact_id), "contactId", a.contact_id)
        @@ Optional(TruthyInt(Get(board_cat, "categoryId", NoneInt)),
                    "categoryId", Get(board_cat, "categoryId", NoneInt))
        @@ Optional(TruthyInt(Get(board_cat, "subcategoryId", NoneInt)),
                    "subcategoryId", Get(board_cat, "subcategoryId", NoneInt))
        @@ Optional(TruthyInt(Get(board_cat, "priorityId", NoneInt)),
                    "priorityId", Get(board_cat, "priorityId", NoneInt))
        @@ Optional(TruthyInt(Get(board_cat, "statusId", NoneInt)),
                    "statusId", Get(board_cat, "statusId", NoneInt))

InvokeCreateSmartTicket ==
    \E user_id \in UserIds \ {NoneStr}, contact_id \in {NoneInt, 0, 9} :
        LET a == [msp_custom_domain |-> <<"etech7">>, user_id |-> user_id,
                  issue_description |-> IssueDescription, company_id |-> 7,
                  contact_id |-> contact_id]
        IN  /\ Start("create_smart_ticket", a)
            /\ Send(BoardCategorizationRequest(a.msp_custom_domain, user_id,
                                               a.issue_description))
            /\ locals' = [step |-> "categorization"]
            /\ UNCHANGED <<calls, result, raised>>

\* a workflow that wraps the failed categorization in an envelope of its own
ResumeSmartCategorization_Wrapped ==
    /\ pc = "resume"
    /\ tool = "create_smart_ticket"
    /\ locals.step = "categorization"
    /\ LET categorization_result ==
               ConnectWiseTicketingClient_get_ticket_board_categorization(reply)
       IN  /\ Called(categorization_result)
           /\ IF ~GetSuccess(categorization_result)
              THEN /\ Return([success |-> FALSE,
                              error |-> <<"Categorization failed">>,
                              details |-> categorization_result])
                   /\ UNCHANGED <<requests, reply, locals>>
              ELSE IF reply.body.type # "object"
              THEN Throw("AttributeError") /\ UNCHANGED <<requests, reply, locals>>
              ELSE /\ Send(CreateBoardTicketRequest(args.msp_custom_domain,
                              SmartTicketDetails(args,
                                  categorization_result.board_categorization),
                              args.user_id))
                   /\ locals' = [step |-> "create"]
                   /\ UNCHANGED <<result, raised>>
    /\ UNCHANGED <<tool, args>>

ResumeSmartCategorization ==
    /\ pc = "resume"
    /\ tool = "create_smart_ticket"
    /\ locals.step = "categorization"
    /\ LET categorization_result ==
               ConnectWiseTicketingClient_get_ticket_board_categorization(reply)
       IN  /\ Called(categorization_result)
           /\ IF ~GetSuccess(categorization_result)
              THEN Return(categorization_result) /\ UNCHANGED <<requests, reply, locals>>
              ELSE IF reply.body.type # "object"
              THEN Throw("AttributeError") /\ UNCHANGED <<requests, reply, locals>>
              ELSE /\ Send(CreateBoardTicketRequest(args.msp_custom_domain,
                              SmartTicketDetails(args,
                                  categorization_result.board_categorization),
                              args.user_id))
                   /\ locals' = [step |-> "create"]
                   /\ UNCHANGED <<result, raised>>
    /\ UNCHANGED <<tool, args>>

ResumeSmartCreate ==
    /\ pc = "resume"
    /\ tool = "create_smart_ticket"
    /\ locals.step = "create"
    /\ LET env == ConnectWiseTicketingClient_create_board_ticket(reply)
       IN  Called(env) /\ Return(env)
    /\ UNCHANGED <<tool, args, requests, reply, locals>>

-----------------------------------------------------------------------------
(* Time-entry tools.  time_spent is a float: the model counts it in tenths, *)
(* so 25 stands for 2.5; hours are counted in hundredths.                   *)

\* datetime.now().strftime("%Y-%m-%d")
Today == <<"\\today">>

\* the request of PSATimeEntryClient.create_time_entry
CreateTimeEntryRequest(time_entry_request) ==
    [adapter |-> "PSATimeEntryClient.create_time_entry", json |-> time_entry_request]

\* a conversion that leaves hours as they are
TimeInMinutes_Unconverted(time_spent, time_unit) == time_spent

\* time_in_minutes of create_psa_time_entry
TimeInMinutes(time_spent, time_unit) ==
    IF lower(time_unit) = <<"h", "o", "u", "r", "s">>
    THEN time_spent * 60
    ELSE time_spent

TimeUnits ==
    {<<"m", "i", "n", "u", "t", "e", "s">>, <<"h", "o", "u", "r", "s">>,
     <<"H", "o", "u", "r", "s">>, <<"h">>}

InvokeCreatePsaTimeEntry ==
    \E time_spent \in {5, 25, 900}, time_unit \in TimeUnits,
       work_date \in {<<>>, <<"2024-05-01">>} :
        LET a == [msp_custom_domain |-> <<"etech7">>, ticket_id |-> <<"123">>,
                  technician_id |-> <<"t1">>, time_spent |-> time_spent,
                  notes |-> <<"Initial diagnosis">>, work_date |-> work_date,
                  billable |-> TRUE, time_unit |-> time_unit]
        IN  /\ Start("create_psa_time_entry", a)
            /\ Send(CreateTimeEntryRequest(
                   [mspCustomDomain |-> a.msp_custom_domain,
                    ticketId |-> a.ticket_id,
                    technicianId |-> a.technician_id,
                    timeSpent |-> TimeInMinutes(time_spent, time_unit),
                    notes |-> a.notes,
                    billable |-> a.billable,
                    workDate |-> IF TruthyStr(work_date) THEN work_date ELSE Today]))
            /\ UNCHANGED <<calls, locals, result, raised>>

ResumeCreatePsaTimeEntry ==
    /\ pc = "resume"
    /\ tool = "create_psa_time_entry"
    /\ LET env == PSATimeEntryClient_create_time_entry(reply)
       IN  Called(env) /\ Return(env)
    /\ UNCHANGED <<tool, args, requests, reply, locals>>

\* round(x, 0) of Python for x = num / den: the nearest integer, a tie to
\* the even one
RoundHalfEven(num, den) ==
    LET q == num \div den
        r == num % den
    IN  IF 2 * r < den THEN q
        ELSE IF 2 * r > den THEN q + 1
        ELSE IF q % 2 = 0 THEN q ELSE q + 1

\* round(total_minutes / 60, 2), in hundredths of an hour
HoursLogged(total_minutes) == RoundHalfEven(total_minutes * 100, 60)

\* the entries of a time_entries argument; time_minutes may be missing
TimeEntries ==
    {[ticket_id |-> <<"1">>, time_minutes |-> 30, notes |-> <<"Initial diagnosis">>],
     [ticket_id |-> <<"2">>, time_minutes |-> 100, notes |-> <<"Software installation">>],
     [ticket_id |-> <<"3">>, notes |-> <<"Call">>]}

\* results before the loop of log_bulk_time_entries
BulkResults(time_entries) ==
    [total_entries |-> Len(time_entries), successful |-> 0, failed |-> 0,
     total_minutes_logged |-> 0, entries |-> <<>>]

\* the request log_bulk_time_entries builds for one entry
BulkEntryRequest(a, entry) ==
    CreateTimeEntryRequest(
        [mspCustomDomain |-> a.msp_custom_domain,
         ticketId |-> Get(entry, "ticket_id", NoneStr),
         technicianId |-> a.technician_id,
         timeSpent |-> Get(entry, "time_minutes", 0),
         notes |-> Get(entry, "notes", <<>>),
         billable |-> Get(entry, "billable", TRUE),
         workDate |-> Get(entry, "work_date", Today)])

\* a loop body that does not count the failures
Tally_FailedUncounted(results, entry, res) ==
    LET entry_result ==
            [ticket_id |-> Get(entry, "ticket_id", NoneStr),
             success |-> Get(res, "success", FALSE),
             minutes |-> Get(entry, "time_minutes", 0)]
    IN  IF GetSuccess(res)
        THEN [results EXCEPT
                !.successful = @ + 1,
                !.total_minutes_logged = @ + Get(entry, "time_minutes", 0),
                !.entries = Append(@, entry_result @@
                    [time_entry_id |-> Get(Get(res, "time_entry", <<>>), "id", NoneInt)])]
        ELSE [results EXCEPT
                !.entries = Append(@, entry_result @@
                    [error |-> Get(res, "error", <<"Unknown error">>)])]

\* a loop body that adds the minutes of every entry
Tally_AllMinutes(results, entry, res) ==
    LET entry_result ==
            [ticket_id |-> Get(entry, "ticket_id", NoneStr),
             success |-> Get(res, "success", FALSE),
             minutes |-> Get(entry, "time_minutes", 0)]
    IN  IF GetSuccess(res)
        THEN [results EXCEPT
                !.successful = @ + 1,
                !.total_minutes_logged = @ + Get(entry, "time_minutes", 0),
                !.entries = Append(@, entry_result @@
                    [time_entry_id |-> Get(Get(res, "time_entry", <<>>), "id", NoneInt)])]
        ELSE [results EXCEPT
                !.failed = @ + 1,
                !.total_minutes_logged = @ + Get(entry, "time_minutes", 0),
                !.entries = Append(@, entry_result @@
                    [error |-> Get(res, "error", <<"Unknown error">>)])]

\* the loop body of log_bulk_time_entries once the adapter answered res
Tally(results, entry, res) ==
    LET entry_result ==
            [ticket_id |-> Get(entry, "ticket_id", NoneStr),
             success |-> Get(res, "success", FALSE),
             minutes |-> Get(entry, "time_minutes", 0)]
    IN  IF GetSuccess(res)
        THEN [results EXCEPT
                !.successful = @ + 1,
                !.total_minutes_logged = @ + Get(entry, "time_minutes", 0),
                !.entries = Append(@, entry_result @@
                    [time_entry_id |-> Get(Get(res, "time_entry", <<>>), "id", NoneInt)])]
        ELSE [results EXCEPT
                !.failed = @ + 1,
                !.entries = Append(@, entry_result @@
                    [error |-> Get(res, "error", <<"Unknown error">>)])]

\* what follows the loop
BulkFinal(results) ==
    results @@ [overall_success |-> results.failed = 0,
                total_hours_logged |-> HoursLogged(results.total_minutes_logged)]

\* a log_bulk_time_entries that issues the requests of all entries at once
InvokeLogBulkTimeEntries_Gathered ==
    \E time_entries \in SeqsUpTo(TimeEntries, MaxEntries) :
        LET a == [msp_custom_domain |-> <<"etech7">>, technician_id |-> <<"t1">>,
                  time_entries |-> time_entries]
        IN  /\ Start("log_bulk_time_entries", a)
            /\ IF time_entries = <<>>
               THEN /\ Return(BulkFinal(BulkResults(time_entries)))
                    /\ UNCHANGED <<requests, reply, locals>>
               ELSE /\ requests' = [i \in DOMAIN time_entries |->
                                       BulkEntryRequest(a, time_entries[i])]
                    /\ reply' = NoReply
                    /\ pc' = "await"
                    /\ locals' = [i |-> 1, results |-> BulkResults(time_entries)]
                    /\ UNCHANGED <<result, raised>>
            /\ UNCHANGED calls

InvokeLogBulkTimeEntries ==
    \E time_entries \in SeqsUpTo(TimeEntries, MaxEntries) :
        LET a == [msp_custom_domain |-> <<"etech7">>, technician_id |-> <<"t1">>,
                  time_entries |-> time_entries]
        IN  /\ Start("log_bulk_time_entries", a)
            /\ IF time_entries = <<>>
               THEN /\ Return(BulkFinal(BulkResults(time_entries)))
                    /\ UNCHANGED <<requests, reply, locals>>
               ELSE /\ Send(BulkEntryRequest(a, time_entries[1]))
                    /\ locals' = [i |-> 1, results |-> BulkResults(time_entries)]
                    /\ UNCHANGED <<result, raised>>
            /\ UNCHANGED calls

\* a loop that gives up at the first entry that failed
ResumeLogBulkTimeEntries_StopOnFailure ==
    /\ pc = "resume"
    /\ tool = "log_bulk_time_entries"
    /\ LET res == PSATimeEntryClient_create_time_entry(reply)
           results == Tally(locals.results, args.time_entries[locals.i], res)
       IN  /\ Called(res)
           /\ IF locals.i < Len(args.time_entries) /\ GetSuccess(res)
              THEN /\ Send(BulkEntryRequest(args, args.time_entries[locals.i + 1]))
                   /\ locals' = [i |-> locals.i + 1, results |-> results]
                   /\ UNCHANGED <<result, raised>>
              ELSE /\ Return(BulkFinal(results))
                   /\ UNCHANGED <<requests, reply, locals>>
    /\ UNCHANGED <<tool, args>>

ResumeLogBulkTimeEntries ==
    /\ pc = "resume"
    /\ tool = "log_bulk_time_entries"
    /\ LET res == PSATimeEntryClient_create_time_entry(reply)
           results == Tally(locals.results, args.time_entries[locals.i], res)
       IN  /\ Called(res)
           /\ IF locals.i < Len(args.time_entries)
              THEN /\ Send(BulkEntryRequest(args, args.time_entries[locals.i + 1]))
                   /\ locals' = [i |-> locals.i + 1, results |-> results]
                   /\ UNCHANGED <<result, raised>>
              ELSE /\ Return(BulkFinal(results))
                   /\ UNCHANGED <<requests, reply, locals>>
    /\ UNCHANGED <<tool, args>>

-----------------------------------------------------------------------------
(* search_psa_entities *)

EntityTypes ==
    {<<"c", "l", "i", "e", "n", "t", "s">>, <<"C", "o", "n", "t", "a", "c", "t", "s">>,
     <<"m", "e", "m", "b", "e", "r", "s">>, <<"b", "o", "a", "r", "d", "s">>}

SearchTerms ==
    {NoneStr, <<>>, <<"a", "c", "m", "e">>, <<"N", "G">>, <<"o", "n">>}

\* str(v) of a decoded JSON string or null
str_value(v) == IF v = JNull THEN <<"N", "o", "n", "e">> ELSE v

SearchFields == <<"name", "firstName", "lastName", "email", "companyName">>

\* the condition of the filter loop for one entity
EntityMatches(search_lower, entity) ==
    \E k \in 1..Len(SearchFields) :
        Contains(search_lower, lower(str_value(Get(entity, SearchFields[k], <<>>))))

\* a dispatch that takes every unknown entity_type for clients
EntityKey_DefaultClients(entity_type) ==
    CASE lower(entity_type) = <<"c", "o", "n", "t", "a", "c", "t", "s">> -> "contacts"
      [] lower(entity_type) = <<"m", "e", "m", "b", "e", "r", "s">> -> "members"
      [] OTHER -> "clients"

\* the adapter method and the payload key entity_type selects
EntityKey(entity_type) ==
    CASE lower(entity_type) = <<"c", "l", "i", "e", "n", "t", "s">> -> "clients"
      [] lower(entity_type) = <<"c", "o", "n", "t", "a", "c", "t", "s">> -> "contacts"
      [] lower(entity_type) = <<"m", "e", "m", "b", "e", "r", "s">> -> "members"
      [] OTHER -> "none"

InvalidEntityType(entity_type) ==
    [success |-> FALSE,
     error |-> <<"Invalid entity type: ">> \o entity_type,
     message |-> <<"Entity type must be 'clients', 'contacts', or 'members'">>]

InvokeSearchPsaEntities ==
    \E entity_type \in EntityTypes, search_term \in SearchTerms :
        LET a == [msp_custom_domain |-> <<"etech7">>, entity_type |-> entity_type,
                  search_term |-> search_term]
            entity_key == EntityKey(entity_type)
        IN  /\ Start("search_psa_entities", a)
            /\ IF entity_key = "none"
               THEN /\ Return(InvalidEntityType(entity_type))
                    /\ UNCHANGED <<requests, reply, locals>>
               ELSE /\ Send([adapter |-> "PSAInitializationClient.get_" \o entity_key,
                             params |-> [mspCustomDomain |-> a.msp_custom_domain]])
                    /\ locals' = [entity_key |-> entity_key]
                    /\ UNCHANGED <<result, raised>>
            /\ UNCHANGED calls

\* the part of search_psa_entities after the adapter answered res
SearchResult(res, entity_key, search_term) ==
    LET filtered == SelectSeq(res[entity_key],
                              LAMBDA entity : EntityMatches(lower(search_term), entity))
    IN  [k \in DOMAIN res \cup {"filtered", "search_term", "total_found"} |->
            CASE k = entity_key -> filtered
              [] k = "filtered" -> TRUE
              [] k = "search_term" -> search_term
              [] k = "total_found" -> Len(filtered)
              [] OTHER -> res[k]]

ResumeSearchPsaEntities ==
    /\ pc = "resume"
    /\ tool = "search_psa_entities"
    /\ LET entity_key == locals.entity_key
           res == Adapter(requests[1].adapter, args, reply)
       IN  /\ Called(res)
           /\ IF ~GetSuccess(res) THEN Return(res)
              ELSE IF ~TruthyStr(args.search_term) \/ res[entity_key] = <<>>
              THEN Return(res)
              \* a decoded object is iterated by its keys, which have no get
              ELSE IF reply.body.type # "array" THEN Throw("AttributeError")
              ELSE Return(SearchResult(res, entity_key, args.search_term))
    /\ UNCHANGED <<tool, args, requests, reply, locals>>

-----------------------------------------------------------------------------
(* batch_sync_domains *)

\* str(e) of the AttributeError the sync adapters end in
NoAttributeTimeoutError == <<"module 'httpx' has no attribute 'TimeoutError'">>

\* the request of PSASyncClient.sync_tickets_for_domain
SyncTicketsRequest(msp_custom_domain) ==
    [adapter |-> "PSASyncClient.sync_tickets_for_domain",
     params |-> [mspCustomDomain |-> msp_custom_domain]]

\* results before the loop of batch_sync_domains; domain_results is a dict
\* keyed by the domain name
BatchResults(domain_list) ==
    [total_domains |-> Len(domain_list), successful |-> 0, failed |-> 0,
     domain_results |-> <<>>]

\* d[key] = value
SetItem(d, key, value) == [k \in DOMAIN d \cup {key} |-> IF k = key THEN value ELSE d[k]]

\* a loop body that forgets to count the domains whose call raised
BatchTally_RaisedUncounted(results, domain, sync_result) ==
    IF IsRaise(sync_result)
    THEN [results EXCEPT
            !.domain_results = SetItem(@, domain,
                [success |-> FALSE, error |-> NoAttributeTimeoutError])]
    ELSE IF GetSuccess(sync_result)
    THEN [results EXCEPT !.domain_results = SetItem(@, domain, sync_result),
                         !.successful = @ + 1]
    ELSE [results EXCEPT !.domain_results = SetItem(@, domain, sync_result),
                         !.failed = @ + 1]

\* the loop body of batch_sync_domains: the try block when the adapter
\* returned sync_result, the except block when it raised
BatchTally(results, domain, sync_result) ==
    IF IsRaise(sync_result)
    THEN [results EXCEPT
            !.domain_results = SetItem(@, domain,
                [success |-> FALSE, error |-> NoAttributeTimeoutError]),
            !.failed = @ + 1]
    ELSE IF GetSuccess(sync_result)
    THEN [results EXCEPT !.domain_results = SetItem(@, domain, sync_result),
                         !.successful = @ + 1]
    ELSE [results EXCEPT !.domain_results = SetItem(@, domain, sync_result),
                         !.failed = @ + 1]

BatchFinal(results) == results @@ [overall_success |-> results.failed = 0]

InvokeBatchSyncDomains ==
    \E domain_list \in SeqsUpTo(Domains, MaxDomains) :
        /\ Start("batch_sync_domains", [domain_list |-> domain_list])
        /\ IF domain_list = <<>>
           THEN /\ Return(BatchFinal(BatchResults(domain_list)))
                /\ UNCHANGED <<requests, reply, locals>>
           ELSE /\ Send(SyncTicketsRequest(domain_list[1]))
                /\ locals' = [i |-> 1, results |-> BatchResults(domain_list)]
                /\ UNCHANGED <<result, raised>>
        /\ UNCHANGED calls

\* a loop without the try / except around the call
ResumeBatchSyncDomains_Uncaught ==
    /\ pc = "resume"
    /\ tool = "batch_sync_domains"
    /\ LET domain == args.domain_list[locals.i]
           sync_result == PSASyncClient_sync_tickets_for_domain(domain, reply)
           results == BatchTally(locals.results, domain, sync_result)
       IN  /\ Called(sync_result)
           /\ IF IsRaise(sync_result)
              THEN /\ Throw(sync_result.raised)
                   /\ UNCHANGED <<requests, reply, locals>>
              ELSE IF locals.i < Len(args.domain_list)
              THEN /\ Send(SyncTicketsRequest(args.domain_list[locals.i + 1]))
                   /\ locals' = [i |-> locals.i + 1, results |-> results]
                   /\ UNCHANGED <<result, raised>>
              ELSE /\ Return(BatchFinal(results))
                   /\ UNCHANGED <<requests, reply, locals>>
    /\ UNCHANGED <<tool, args>>

ResumeBatchSyncDomains ==
    /\ pc = "resume"
    /\ tool = "batch_sync_domains"
    /\ LET domain == args.domain_list[locals.i]
           sync_result == PSASyncClient_sync_tickets_for_domain(domain, reply)
           results == BatchTally(locals.results, domain, sync_result)
       IN  /\ Called(sync_result)
           /\ IF locals.i < Len(args.domain_list)
              THEN /\ Send(SyncTicketsRequest(args.domain_list[locals.i + 1]))
                   /\ locals' = [i |-> locals.i + 1, results |-> results]
                   /\ UNCHANGED <<result, raised>>
              ELSE /\ Return(BatchFinal(results))
                   /\ UNCHANGED <<requests, reply, locals>>
    /\ UNCHANGED <<tool, args>>

-----------------------------------------------------------------------------
(* get_psa_overview *)

OverviewKeys == <<"clients", "contacts", "members">>
SampleLimit == 5

\* the name put into the sample for one entity of the category
SampleName(key, c) ==
    IF key = "contacts"
    THEN str_value(Get(c, "firstName", <<>>)) \o <<" ">> \o str_value(Get(c, "lastName", <<>>))
    ELSE Get(c, "name", <<"Unknown">>)

\* what one fetch of get_psa_overview leaves in overview[key], for a
\* payload that is a list
OverviewCategory(res, key) ==
    IF ~GetSuccess(res)
    THEN [count |-> 0, status |-> "failed", error |-> Get(res, "error", NoneStr)]
    ELSE LET items == Get(res, key, <<>>)
         IN  IF items = <<>> THEN [count |-> 0, status |-> "success"]
             ELSE [count |-> Len(items), status |-> "success",
                   sample |-> [i \in DOMAIN Prefix(items, SampleLimit) |->
                                  SampleName(key, items[i])]]

InvokeGetPsaOverview ==
    \E d \in Domains :
        /\ Start("get_psa_overview", [msp_custom_domain |-> d])
        /\ Send([adapter |-> "PSAInitializationClient.get_clients",
                 params |-> [mspCustomDomain |-> d]])
        /\ locals' = [i |-> 1,
                      overview |-> [msp_domain |-> d,
                                    clients |-> [count |-> 0, status |-> "pending"],
                                    contacts |-> [count |-> 0, status |-> "pending"],
                                    members |-> [count |-> 0, status |-> "pending"],
                                    overall_success |-> TRUE]]
        /\ UNCHANGED <<calls, result, raised>>

\* one of the three blocks of get_psa_overview, after its fetch returned
ResumeGetPsaOverview ==
    /\ pc = "resume"
    /\ tool = "get_psa_overview"
    /\ LET key == OverviewKeys[locals.i]
           res == Adapter(requests[locals.i].adapter, args, reply)
           \* a decoded object has no slice: items[:5] raises TypeError
           category == IF GetSuccess(res) /\ reply.body.type = "object"
                       THEN Raise("TypeError")
                       ELSE OverviewCategory(res, key)
           overview == [locals.overview EXCEPT
                           ![key] = category,
                           !.overall_success = @ /\ GetSuccess(res)]
       IN  /\ Called(res)
           /\ IF IsRaise(category)
              THEN Throw(category.raised) /\ UNCHANGED <<requests, reply, locals>>
              ELSE IF locals.i < Len(OverviewKeys)
              THEN /\ Send([adapter |-> "PSAInitializationClient.get_"
                                           \o OverviewKeys[locals.i + 1],
                            params |-> [mspCustomDomain |-> args.msp_custom_domain]])
                   /\ locals' = [i |-> locals.i + 1, overview |-> overview]
                   /\ UNCHANGED <<result, raised>>
              ELSE /\ Return(overview)
                   /\ UNCHANGED <<requests, reply, locals>>
    /\ UNCHANGED <<tool, args>>

-----------------------------------------------------------------------------
(* sync_all_connectwise_data: clients and contacts, then the board listing, *)
(* then one ticket sync for all the boards listed.                          *)

\* board_configs of sync_all_connectwise_data as sync_multiple_connectwise_boards
\* turns them into sync requests: no config carries a date or statuses
BoardSyncRequests(boards) ==
    [i \in DOMAIN boards |-> [boardId |-> Get(boards[i], "id", NoneInt),
                              boardName |-> Get(boards[i], "name", NoneStr)]]

InvokeSyncAllConnectwiseData ==
    \E d \in Domains :
        /\ Start("sync_all_connectwise_data", [msp_custom_domain |-> d])
        /\ Send([adapter |-> "ConnectWiseSyncClient.sync_clients_contacts",
                 params |-> [mspCustomDomain |-> d]])
        /\ locals' = [step |-> "clients",
                      sync_results |-> [clients_contacts_sync |-> JNull,
                                        boards_sync |-> JNull,
                                        overall_success |-> TRUE,
                                        errors |-> <<>>]]
        /\ UNCHANGED <<calls, result, raised>>

\* The name sync_multiple_connectwise_boards is bound to what @mcp.tool
\* returned: the coroutine function in the FastMCP releases whose decorator
\* hands the function back, a tool object that cannot be called in the others.
ResumeSyncAllConnectwiseData ==
    /\ pc = "resume"
    /\ tool = "sync_all_connectwise_data"
    /\ LET sync_results == locals.sync_results
           Failed(msg) == [sync_results EXCEPT !.overall_success = FALSE,
                                               !.errors = Append(@, <<msg>>)]
       IN  CASE locals.step = "clients" ->
                  LET clients_result == ConnectWiseSyncClient_sync_clients_contacts(reply)
                  IN  /\ Called(clients_result)
                      /\ IF IsRaise(clients_result)
                         THEN /\ Throw(clients_result.raised)
                              /\ UNCHANGED <<requests, reply, locals>>
                         ELSE /\ Send([adapter |-> "ConnectWiseClient.get_boards",
                                       params |-> [mspCustomDomain |-> args.msp_custom_domain]])
                              /\ locals' =
                                    [step |-> "boards",
                                     sync_results |->
                                        [(IF GetSuccess(clients_result) THEN sync_results
                                          ELSE Failed("Failed to sync clients and contacts"))
                                         EXCEPT !.clients_contacts_sync = clients_result]]
                              /\ UNCHANGED <<result, raised>>
             [] locals.step = "boards" ->
                  LET boards_result == ConnectWiseClient_get_boards(reply)
                  IN  /\ Called(boards_result)
                      /\ IF GetSuccess(boards_result) /\ boards_result.boards # <<>>
                         THEN IF reply.body.type = "object"
                              THEN \* for board in <dict>: board is a key, a str
                                   /\ Throw("AttributeError")
                                   /\ UNCHANGED <<requests, reply, locals>>
                              ELSE \E decorated \in {"function", "FunctionTool"} :
                                      IF decorated = "FunctionTool"
                                      THEN /\ Throw("TypeError")
                                           /\ UNCHANGED <<requests, reply, locals>>
                                      ELSE /\ Send([adapter |-> "ConnectWiseSyncClient.sync_board_tickets",
                                                    params |-> [mspCustomDomain |-> args.msp_custom_domain],
                                                    json |-> BoardSyncRequests(boards_result.boards)])
                                           /\ locals' = [locals EXCEPT !.step = "sync"]
                                           /\ UNCHANGED <<result, raised>>
                         ELSE /\ Return(Failed("Could not retrieve boards for sync"))
                              /\ UNCHANGED <<requests, reply, locals>>
             [] locals.step = "sync" ->
                  LET boards_sync_result ==
                          ConnectWiseSyncClient_sync_board_tickets(
                              requests[Len(requests)].json, reply)
                  IN  /\ Called(boards_sync_result)
                      /\ IF IsRaise(boards_sync_result)
                         THEN Throw(boards_sync_result.raised)
                         ELSE Return([(IF GetSuccess(boards_sync_result) THEN sync_results
                                       ELSE Failed("Failed to sync some boards"))
                                      EXCEPT !.boards_sync = boards_sync_result])
                      /\ UNCHANGED <<requests, reply, locals>>
    /\ UNCHANGED <<tool, args>>

-----------------------------------------------------------------------------
(* log_time_with_completion: the time entry, then the closure if asked for. *)

InvokeLogTimeWithCompletion ==
    \E board_id \in {NoneInt, 0, 1}, close_ticket \in BOOLEAN :
        LET a == [msp_custom_domain |-> <<"etech7">>, ticket_id |-> <<"123">>,
                  technician_id |-> <<"t1">>, time_minutes |-> 30,
                  resolution_notes |-> <<"Replaced the router">>,
                  board_id |-> board_id, close_ticket |-> close_ticket]
        IN  /\ Start("log_time_with_completion", a)
            /\ Send(CreateTimeEntryRequest(
                   [mspCustomDomain |-> a.msp_custom_domain,
                    ticketId |-> a.ticket_id,
                    technicianId |-> a.technician_id,
                    timeSpent |-> a.time_minutes,
                    notes |-> a.resolution_notes,
                    billable |-> TRUE,
                    workDate |-> Today]))
            /\ locals' = [step |-> "time",
                          results |-> [time_entry |-> JNull, ticket_closure |-> JNull,
                                       overall_success |-> TRUE]]
            /\ UNCHANGED <<calls, result, raised>>

\* a workflow that closes the ticket whatever became of the time entry
ResumeLogTimeWithCompletion_AlwaysClose ==
    /\ pc = "resume"
    /\ tool = "log_time_with_completion"
    /\ IF locals.step = "time"
       THEN LET time_result == PSATimeEntryClient_create_time_entry(reply)
                results == [locals.results EXCEPT !.time_entry = time_result,
                               !.overall_success = GetSuccess(time_result)]
            IN  /\ Called(time_result)
                /\ IF ~args.close_ticket
                   THEN Return(results) /\ UNCHANGED <<requests, reply, locals>>
                   ELSE /\ Send([adapter |-> "PSATicketingClient.close_ticket",
                                 params |-> [mspCustomDomain |-> args.msp_custom_domain,
                                             ticketId |-> args.ticket_id]
                                    @@ Optional(args.board_id # NoneInt,
                                                "boardId", args.board_id)])
                        /\ locals' = [step |-> "close", results |-> results]
                        /\ UNCHANGED <<result, raised>>
       ELSE LET close_result == PSATicketingClient_close_ticket(reply)
            IN  /\ Called(close_result)
                /\ Return([locals.results EXCEPT !.ticket_closure = close_result,
                              !.overall_success = @ /\ GetSuccess(close_result)])
                /\ UNCHANGED <<requests, reply, locals>>
    /\ UNCHANGED <<tool, args>>

\* after the time entry: stop on its failure, close the ticket if asked for
\* (board_id goes into the request unless it is None); after the closure:
\* record it
ResumeLogTimeWithCompletion ==
    /\ pc = "resume"
    /\ tool = "log_time_with_completion"
    /\ IF locals.step = "time"
       THEN LET time_result == PSATimeEntryClient_create_time_entry(reply)
                results == [locals.results EXCEPT !.time_entry = time_result]
            IN  /\ Called(time_result)
                /\ IF ~GetSuccess(time_result)
                   THEN /\ Return([results EXCEPT !.overall_success = FALSE])
                        /\ UNCHANGED <<requests, reply, locals>>
                   ELSE IF ~args.close_ticket
                   THEN Return(results) /\ UNCHANGED <<requests, reply, locals>>
                   ELSE /\ Send([adapter |-> "PSATicketingClient.close_ticket",
                                 params |-> [mspCustomDomain |-> args.msp_custom_domain,
                                             ticketId |-> args.ticket_id]
                                    @@ Optional(args.board_id # NoneInt,
                                                "boardId", args.board_id)])
                        /\ locals' = [step |-> "close", results |-> results]
                        /\ UNCHANGED <<result, raised>>
       ELSE LET close_result == PSATicketingClient_close_ticket(reply)
                results == [locals.results EXCEPT !.ticket_closure = close_result]
            IN  /\ Called(close_result)
                /\ Return(IF GetSuccess(close_result) THEN results
                          ELSE [results EXCEPT !.overall_success = FALSE])
                /\ UNCHANGED <<requests, reply, locals>>
    /\ UNCHANGED <<tool, args>>

-----------------------------------------------------------------------------
(* sync_psa_with_status_check: the sync of one domain, after a listing of   *)
(* its clients when the integration is to be checked first.                 *)

InvokeSyncPsaWithStatusCheck ==
    \E d \in Domains, check_integration_first \in BOOLEAN :
        /\ Start("sync_psa_with_status_check",
                 [msp_custom_domain |-> d,
                  check_integration_first |-> check_integration_first])
        /\ Send(IF check_integration_first
                THEN [adapter |-> "PSAInitializationClient.get_clients",
                      params |-> [mspCustomDomain |-> d]]
                ELSE SyncTicketsRequest(d))
        /\ locals' = [step |-> IF check_integration_first THEN "check" ELSE "sync",
                      result |-> [domain |-> d, integration_check |-> NoneStr,
                                  sync_result |-> JNull]]
        /\ UNCHANGED <<calls, result, raised>>

\* a workflow that syncs whatever the check said
ResumeSyncPsaWithStatusCheck_CheckIgnored ==
    /\ pc = "resume"
    /\ tool = "sync_psa_with_status_check"
    /\ IF locals.step = "check"
       THEN LET overview == PSAInitializationClient_get_clients(reply)
            IN  /\ Called(overview)
                /\ Send(SyncTicketsRequest(args.msp_custom_domain))
                /\ locals' = [step |-> "sync",
                              result |-> [locals.result EXCEPT
                                  !.integration_check =
                                      IF GetSuccess(overview) THEN <<"passed">>
                                      ELSE <<"failed">>]]
                /\ UNCHANGED <<result, raised>>
       ELSE LET sync_result == PSASyncClient_sync_tickets_for_domain(
                                   args.msp_custom_domain, reply)
            IN  /\ Called(sync_result)
                /\ IF IsRaise(sync_result)
                   THEN Throw(sync_result.raised)
                   ELSE Return([locals.result EXCEPT !.sync_result = sync_result]
                               @@ [success |-> Get(sync_result, "success", FALSE)])
                /\ UNCHANGED <<requests, reply, locals>>
    /\ UNCHANGED <<tool, args>>

\* after the check: stop when the listing failed, sync otherwise; after the
\* sync: hand its envelope and its success on
ResumeSyncPsaWithStatusCheck ==
    /\ pc = "resume"
    /\ tool = "sync_psa_with_status_check"
    /\ IF locals.step = "check"
       THEN LET overview == PSAInitializationClient_get_clients(reply)
            IN  /\ Called(overview)
                /\ IF ~GetSuccess(overview)
                   THEN /\ Return([locals.result EXCEPT
                                      !.integration_check = <<"failed">>]
                                  @@ [error |-> <<"No PSA integration found or accessible">>,
                                      success |-> FALSE])
                        /\ UNCHANGED <<requests, reply, locals>>
                   ELSE /\ Send(SyncTicketsRequest(args.msp_custom_domain))
                        /\ locals' = [step |-> "sync",
                                      result |-> [locals.result EXCEPT
                                          !.integration_check = <<"passed">>]]
                        /\ UNCHANGED <<result, raised>>
       ELSE LET sync_result == PSASyncClient_sync_tickets_for_domain(
                                   args.msp_custom_domain, reply)
            IN  /\ Called(sync_result)
                /\ IF IsRaise(sync_result)
                   THEN Throw(sync_result.raised)
                   ELSE Return([locals.result EXCEPT !.sync_result = sync_result]
                               @@ [success |-> Get(sync_result, "success", FALSE)])
                /\ UNCHANGED <<requests, reply, locals>>
    /\ UNCHANGED <<tool, args>>

-----------------------------------------------------------------------------
(* create_weaviate_schema: the existence check, then the creation unless    *)
(* the schema is known to exist.                                            *)

InvokeCreateWeaviateSchema ==
    /\ Start("create_weaviate_schema", <<>>)
    /\ Send([adapter |-> "WeaviateClient.check_schema_exists"])
    /\ locals' = [step |-> "check"]
    /\ UNCHANGED <<calls, result, raised>>

\* a workflow that gives up when the existence check failed
ResumeCreateWeaviateSchema_FailedCheckStops ==
    /\ pc = "resume"
    /\ tool = "create_weaviate_schema"
    /\ IF locals.step = "check"
       THEN LET check_result == WeaviateClient_check_schema_exists(reply)
            IN  /\ Called(check_result)
                /\ IF ~GetSuccess(check_result)
                   THEN Return(check_result) /\ UNCHANGED <<requests, reply, locals>>
                   ELSE IF Get(check_result, "schema_exists", FALSE)
                   THEN /\ Return([success |-> TRUE, status |-> <<"already_exists">>,
                                   message |-> <<"Schema already exists">>])
                        /\ UNCHANGED <<requests, reply, locals>>
                   ELSE /\ Send([adapter |-> "WeaviateClient.create_schema"])
                        /\ locals' = [step |-> "create"]
                        /\ UNCHANGED <<result, raised>>
       ELSE LET create_result == WeaviateClient_create_schema(reply)
            IN  /\ Called(create_result)
                /\ Return(create_result)
                /\ UNCHANGED <<requests, reply, locals>>
    /\ UNCHANGED <<tool, args>>

\* after the check: answer already_exists when it succeeded and found the
\* schema, create the schema otherwise; after the creation: return its envelope
ResumeCreateWeaviateSchema ==
    /\ pc = "resume"
    /\ tool = "create_weaviate_schema"
    /\ IF locals.step = "check"
       THEN LET check_result == WeaviateClient_check_schema_exists(reply)
            IN  /\ Called(check_result)
                /\ IF GetSuccess(check_result)
                        /\ Get(check_result, "schema_exists", FALSE)
                   THEN /\ Return([success |-> TRUE, status |-> <<"already_exists">>,
                                   message |-> <<"Schema already exists">>])
                        /\ UNCHANGED <<requests, reply, locals>>
                   ELSE /\ Send([adapter |-> "WeaviateClient.create_schema"])
                        /\ locals' = [step |-> "create"]
                        /\ UNCHANGED <<result, raised>>
       ELSE LET create_result == WeaviateClient_create_schema(reply)
            IN  /\ Called(create_result)
                /\ Return(create_result)
                /\ UNCHANGED <<requests, reply, locals>>
    /\ UNCHANGED <<tool, args>>

-----------------------------------------------------------------------------
Next ==
    \/ Transport
    \/ Retire
    \/ InvokeAdapterTool
    \/ ResumeAdapterTool
    \/ InvokeGetTicketsByDomain
    \/ ResumeGetTicketsByDomain
    \/ InvokeGetPsaTicketDiagnostic
    \/ ResumeGetPsaTicketDiagnostic
    \/ InvokeCreatePsaTicket
    \/ ResumeCreatePsaTicket
    \/ InvokeCreatePsaTicketWithAi
    \/ ResumeAiDiagnostic
    \/ ResumeAiCreate
    \/ InvokeCreateSmartTicket
    \/ ResumeSmartCategorization
    \/ ResumeSmartCreate
    \/ InvokeCreatePsaTimeEntry
    \/ ResumeCreatePsaTimeEntry
    \/ InvokeLogBulkTimeEntries
    \/ ResumeLogBulkTimeEntries
    \/ InvokeSearchPsaEntities
    \/ ResumeSearchPsaEntities
    \/ InvokeBatchSyncDomains
    \/ ResumeBatchSyncDomains
    \/ InvokeGetPsaOverview
    \/ ResumeGetPsaOverview
    \/ InvokeSyncAllConnectwiseData
    \/ ResumeSyncAllConnectwiseData
    \/ InvokeLogTimeWithCompletion
    \/ ResumeLogTimeWithCompletion
    \/ InvokeSyncPsaWithStatusCheck
    \/ ResumeSyncPsaWithStatusCheck
    \/ InvokeCreateWeaviateSchema
    \/ ResumeCreateWeaviateSchema

Spec == Init /\ [][Next]_vars

-----------------------------------------------------------------------------
(* Vocabulary of the properties *)

\* the adapter calls of the current invocation that have returned
Calls == {calls[i] : i \in 1..Len(calls)}

Answered(c, status) == c.out.kind = "response" /\ c.out.status = status

\* the payload key each adapter method documents for its 200 answer
PayloadKey ==
    [m \in {"AutotaskClient.get_statuses", "ConnectWiseClient.get_statuses"} |-> "statuses"]
    @@ [m \in {"AutotaskClient.get_priorities", "ConnectWiseClient.get_priorities"} |-> "priorities"]
    @@ [m \in {"AutotaskClient.get_all_contacts", "ConnectWiseClient.get_contacts",
               "PSAInitializationClient.get_contacts"} |-> "contacts"]
    @@ [m \in {"ConnectWiseClient.get_clients", "PSAInitializationClient.get_clients"} |-> "clients"]
    @@ [m \in {"ConnectWiseClient.get_members", "PSAInitializationClient.get_members"} |-> "members"]
    @@ [m \in {"AutotaskClient.merge_queues_and_issue_types",
               "ConnectWiseClient.get_configuration"} |-> "configuration"]
    @@ [m \in {"ConnectWiseClient.add_contact", "PSAInitializationClient.add_contact"} |-> "contact"]
    @@ [m \in {"ConnectWiseTicketingClient.create_board_ticket",
               "ConnectWiseTicketingClient.get_ticket_by_id",
               "PSATicketingClient.create_ticket"} |-> "ticket"]
    @@ [m \in {"ConnectWiseTicketingClient.get_ticket_notes",
               "PSATicketingClient.get_ticket_notes"} |-> "notes"]
    @@ [m \in {"ConnectWiseTicketingClient.get_ticket_diagnostic_qa",
               "PSATicketingClient.get_ticket_diagnostic_qa"} |-> "diagnostic_qa"]
    @@ [m \in {"PSATicketingClient.add_notes_to_ticket",
               "PSATicketingClient.close_ticket"} |-> "result"]
    @@ ("AutotaskClient.get_issue_types" :> "issue_types")
    @@ ("AutotaskClient.get_ticket_categories" :> "categories")
    @@ ("AutotaskClient.get_ticket_types" :> "ticket_types")
    @@ ("AutotaskClient.get_queues" :> "queues")
    @@ ("AutotaskClient.get_queue_details" :> "queue_details")
    @@ ("AutotaskClient.get_sources" :> "sources")
    @@ ("AutotaskClient.get_all_companies" :> "companies")
    @@ ("AutotaskClient.get_all_resources" :> "resources")
    @@ ("ConnectWiseClient.create_board" :> "board")
    @@ ("ConnectWiseClient.get_boards" :> "boards")
    @@ ("ConnectWiseClient.get_departments" :> "departments")
    @@ ("ConnectWiseTicketingClient.get_ticket_categorization" :> "categorization")
    @@ ("ConnectWiseTicketingClient.get_ticket_board_categorization" :> "board_categorization")
    @@ ("ConnectWiseTicketingClient.update_ticket" :> "updated_ticket")
    @@ ("ConnectWiseTicketingClient.add_note_to_ticket" :> "note")
    @@ ("PSATicketingClient.get_ticket_status" :> "status")
    @@ ("PSATimeEntryClient.create_time_entry" :> "time_entry")
    @@ ("ConnectWiseSyncClient.sync_clients_contacts" :> "sync_result")

\* the methods that return the plain envelope: a dict with a success key
EnvelopeMethods ==
    AdapterMethods \ {"WeaviateClient.test_connection"}

\* success is true and the payload key, if the method has one, holds the
\* decoded body
Decoded200(c) ==
    /\ ~IsRaise(c.env)
    /\ "success" \in DOMAIN c.env
    /\ c.env.success = TRUE
    /\ c.adapter \in DOMAIN PayloadKey =>
          /\ PayloadKey[c.adapter] \in DOMAIN c.env
          /\ c.env[PayloadKey[c.adapter]] = c.out.body.value

\* C1 as stated: every adapter call answered 200 with valid JSON returns
\* success=true and the decoded body under the payload key
C1_AsStated ==
    \A c \in Calls :
        (Answered(c, 200) /\ c.out.body.valid) =>
            /\ c.adapter \in EnvelopeMethods
            /\ Decoded200(c)

\* C1: on 200 with valid JSON every method with a payload key returns the
\* decoded body under that key with success=true, except create_time_entry,
\* which needs a JSON object and takes success from the object's own success
\* field (true when absent); the methods without a payload key answer
\* success=true (check_service_health: when the body is an object),
\* test_connection answers connected=true without a success key, and
\* PSAClient.get_tickets_by_domain returns the decoded body itself
C1_Decoded200 ==
    \A c \in Calls :
        (Answered(c, 200) /\ c.out.body.valid) =>
            CASE c.adapter = "PSAClient.get_tickets_by_domain" ->
                    c.env = c.out.body.value
              [] c.adapter = "WeaviateClient.test_connection" ->
                    /\ "success" \notin DOMAIN c.env
                    /\ c.env.connected = TRUE
              [] c.adapter \in {"PSATimeEntryClient.create_time_entry",
                                "PSATimeEntryClient.check_service_health"}
                     /\ c.out.body.type # "object" ->
                    /\ c.env.success = FALSE
                    /\ "error" \in DOMAIN c.env
                    /\ "time_entry" \notin DOMAIN c.env
              [] c.adapter = "PSATimeEntryClient.create_time_entry"
                     /\ c.out.body.type = "object" ->
                    /\ c.env.time_entry = c.out.body.value
                    /\ c.env.success = Get(c.out.body.value, "success", TRUE)
              [] OTHER -> Decoded200(c)

C1_Witness ==
    \E c \in Calls :
        /\ Answered(c, 200) /\ c.out.body.valid
        /\ c.adapter = "AutotaskClient.get_statuses"
        /\ c.out.body.type = "array"
        /\ c.env.statuses = ArrayBody.value

\* the list-returning methods, by the docstrings of their tools
ListMethods ==
    {"AutotaskClient.get_statuses", "AutotaskClient.get_priorities",
     "AutotaskClient.get_issue_types", "AutotaskClient.get_ticket_categories",
     "AutotaskClient.get_ticket_types", "AutotaskClient.get_queues",
     "AutotaskClient.get_sources", "AutotaskClient.get_all_companies",
     "AutotaskClient.get_all_contacts", "AutotaskClient.get_all_resources",
     "ConnectWiseClient.get_boards", "ConnectWiseClient.get_statuses",
     "ConnectWiseClient.get_clients", "ConnectWiseClient.get_contacts",
     "ConnectWiseClient.get_members", "ConnectWiseClient.get_departments",
     "ConnectWiseClient.get_priorities",
     "PSAInitializationClient.get_clients", "PSAInitializationClient.get_contacts",
     "PSAInitializationClient.get_members"}

GenericPSAListMethods ==
    {"PSAInitializationClient.get_clients", "PSAInitializationClient.get_contacts",
     "PSAInitializationClient.get_members"}

Empty204(c) ==
    /\ c.env.success = TRUE
    /\ "error" \notin DOMAIN c.env
    /\ c.env[PayloadKey[c.adapter]] = <<>>

ContainsStatus(c) ==
    /\ ~IsRaise(c.env)
    /\ "success" \in DOMAIN c.env
    /\ c.env.success = FALSE
    /\ "error" \in DOMAIN c.env
    /\ Contains(str_int(c.out.status), c.env.error)

\* C2 as stated: every list-returning method answers 204 with success=true
\* and an empty sequence
C2_AsStated ==
    \A c \in Calls :
        (c.adapter \in ListMethods /\ Answered(c, 204)) => Empty204(c)

\* C2: the generic-PSA list methods (get_clients, get_contacts, get_members
\* of PSAInitializationClient) answer 204 with success=true and an empty
\* sequence; the Autotask and ConnectWise list methods have no 204 branch and
\* answer it with success=false and "Failed with status 204"
C2_Empty204 ==
    \A c \in Calls :
        (c.adapter \in ListMethods /\ Answered(c, 204)) =>
            IF c.adapter \in GenericPSAListMethods
            THEN Empty204(c)
            ELSE /\ ContainsStatus(c)
                 /\ PayloadKey[c.adapter] \notin DOMAIN c.env

C2_Witness ==
    \E c \in Calls :
        /\ c.adapter = "PSAInitializationClient.get_contacts"
        /\ Answered(c, 204)
        /\ c.env.contacts = <<>>

\* the status codes a method treats apart from 200, by method
SpecialStatuses(m) ==
    CASE m \in {"PSATicketingClient.get_ticket_diagnostic_qa",
                "PSATicketingClient.create_ticket",
                "PSATicketingClient.add_notes_to_ticket",
                "PSASyncClient.sync_tickets_for_domain"} -> {400}
      [] m \in {"PSATicketingClient.get_ticket_notes",
                "PSAInitializationClient.add_contact"} -> {404}
      [] m = "PSATicketingClient.get_ticket_status" -> {400, 404}
      [] OTHER -> {}

Unaccepted(c) ==
    /\ c.out.kind = "response"
    /\ c.out.status \notin {200, 204}
    /\ c.out.status \notin SpecialStatuses(c.adapter)

-----------------------------------------------------------------------------
(* C4, C5: validation and categorization come before the ticket request *)

AbsentStr(x) == x = NoneStr \/ x = <<>>
AbsentInt(x) == x = NoneInt \/ x = 0

C4_Tools == {"get_psa_ticket_diagnostic", "create_psa_ticket", "create_psa_ticket_with_ai"}

C4_ArgumentsMissing ==
    \/ /\ tool = "get_psa_ticket_diagnostic"
       /\ AbsentStr(args.user_id) /\ AbsentStr(args.tech_id)
    \/ /\ tool \in {"create_psa_ticket", "create_psa_ticket_with_ai"}
       /\ AbsentStr(args.user_id)
       /\ (AbsentStr(args.tech_id) \/ AbsentInt(args.psa_company_id))

\* C4: get_psa_ticket_diagnostic without user_id and tech_id, and
\* create_psa_ticket / create_psa_ticket_with_ai without user_id and without
\* tech_id or psa_company_id, return success=false with error "Validation
\* Error" and issue no request; with the arguments present the first thing
\* the tool does is a request to the backend.
C4_ValidationPrecedesNetwork ==
    tool \in C4_Tools =>
        IF C4_ArgumentsMissing
        THEN /\ requests = <<>>
             /\ pc = "done"
             /\ raised = "none"
             /\ result.success = FALSE
             /\ result.error = <<"Validation Error">>
        ELSE /\ Len(requests) >= 1
             /\ requests[1].adapter =
                    (IF tool = "create_psa_ticket"
                     THEN "PSATicketingClient.create_ticket"
                     ELSE "PSATicketingClient.get_ticket_diagnostic_qa")

\* create_psa_ticket with a tech_id but no psa_company_id was refused
C4_Witness ==
    /\ tool = "create_psa_ticket"
    /\ args.user_id = NoneStr /\ args.tech_id = <<"t1">> /\ args.psa_company_id = NoneInt
    /\ pc = "done" /\ requests = <<>>
    /\ result.error = <<"Validation Error">>

C5_Tools == {"create_smart_ticket", "create_psa_ticket_with_ai"}

C5_CreationMethods ==
    {"PSATicketingClient.create_ticket", "ConnectWiseTicketingClient.create_board_ticket"}

C5_CreationRequested == \E i \in 1..Len(requests) : requests[i].adapter \in C5_CreationMethods

\* C5: in create_smart_ticket and create_psa_ticket_with_ai, when the
\* categorization (diagnostic) call answers success=false the tool returns
\* that envelope as it is and never requests the creation of a ticket; a
\* creation request is only issued after a categorization that succeeded.
C5_FailedCategorizationReturned ==
    tool \in C5_Tools =>
        /\ (Len(calls) >= 1 /\ calls[1].env.success = FALSE) =>
               /\ pc = "done"
               /\ raised = "none"
               /\ result = calls[1].env
               /\ ~C5_CreationRequested
        /\ C5_CreationRequested =>
               /\ Len(calls) >= 1
               /\ calls[1].adapter \notin C5_CreationMethods
               /\ calls[1].env.success = TRUE

\* create_smart_ticket returned the 503 envelope of the categorization
C5_Witness ==
    /\ tool = "create_smart_ticket"
    /\ pc = "done"
    /\ Len(calls) = 1
    /\ Answered(calls[1], 503)
    /\ result = calls[1].env
    /\ result.success = FALSE
    /\ Len(requests) = 1

-----------------------------------------------------------------------------
(* C6, C7, C8: the time-entry tools *)

BulkDone == tool = "log_bulk_time_entries" /\ pc = "done"

\* the positions of time_entries whose adapter call answered success
SucceededEntries == {i \in 1..Len(calls) : calls[i].env.success = TRUE}

\* C6: log_bulk_time_entries calls the backend once per entry and returns
\* successful + failed = total_entries = the number of entries given, with
\* successful the number of entries whose call answered success and
\* overall_success true exactly when failed = 0.
C6_BulkCounts ==
    BulkDone =>
        /\ raised = "none"
        /\ Len(calls) = Len(args.time_entries)
        /\ result.total_entries = Len(args.time_entries)
        /\ result.successful + result.failed = result.total_entries
        /\ result.successful = Cardinality(SucceededEntries)
        /\ result.overall_success = (result.failed = 0)

\* two entries were logged, the second one failed
C6_Witness ==
    /\ BulkDone
    /\ Len(args.time_entries) = 2
    /\ calls[1].env.success = TRUE
    /\ calls[2].env.success = FALSE
    /\ result.successful = 1 /\ result.failed = 1
    /\ result.overall_success = FALSE

RECURSIVE SucceededMinutes(_)
\* time_minutes (0 when the entry has none) summed over the first n entries
\* whose call answered success
SucceededMinutes(n) ==
    IF n = 0 THEN 0
    ELSE SucceededMinutes(n - 1)
           + (IF n \in SucceededEntries
              THEN (IF "time_minutes" \in DOMAIN args.time_entries[n]
                    THEN args.time_entries[n].time_minutes ELSE 0)
              ELSE 0)

\* C7: total_minutes_logged is the sum of time_minutes over the entries whose
\* call answered success and over no other, and total_hours_logged is that
\* sum divided by 60, rounded to the nearest hundredth.
C7_BulkMinutes ==
    BulkDone =>
        /\ result.total_minutes_logged = SucceededMinutes(Len(args.time_entries))
        /\ 2 * (60 * result.total_hours_logged - 100 * result.total_minutes_logged) <= 60
        /\ 2 * (100 * result.total_minutes_logged - 60 * result.total_hours_logged) <= 60

\* the 30 minutes of ticket 1 failed, the 100 minutes of ticket 2 were
\* logged: 1.67 hours
C7_Witness ==
    /\ BulkDone
    /\ Len(args.time_entries) = 2
    /\ args.time_entries[1].ticket_id = <<"1">> /\ calls[1].env.success = FALSE
    /\ args.time_entries[2].ticket_id = <<"2">> /\ calls[2].env.success = TRUE
    /\ result.total_minutes_logged = 100
    /\ result.total_hours_logged = 167

\* C8: create_psa_time_entry sends timeSpent = time_spent * 60 when time_unit
\* is "hours" and timeSpent = time_spent when time_unit is "minutes".
C8_HoursToMinutes ==
    (tool = "create_psa_time_entry" /\ pc # "idle") =>
        /\ Len(requests) = 1
        /\ requests[1].adapter = "PSATimeEntryClient.create_time_entry"
        /\ args.time_unit = <<"h", "o", "u", "r", "s">> =>
               requests[1].json.timeSpent = args.time_spent * 60
        /\ args.time_unit = <<"m", "i", "n", "u", "t", "e", "s">> =>
               requests[1].json.timeSpent = args.time_spent

\* 2.5 hours were sent as 150 minutes
C8_Witness ==
    /\ tool = "create_psa_time_entry"
    /\ args.time_spent = 25
    /\ args.time_unit = <<"h", "o", "u", "r", "s">>
    /\ Len(requests) = 1
    /\ requests[1].json.timeSpent = 1500

-----------------------------------------------------------------------------
(* C9: the entity search *)

\* the five fields the search is specified over
C9_Fields == {"name", "firstName", "lastName", "email", "companyName"}

\* the term is a case-insensitive substring of one of the fields of the entity
C9_TermInEntity(term, entity) ==
    \E f \in C9_Fields \cap DOMAIN entity :
        /\ entity[f] # JNull
        /\ Contains(lower(term), lower(entity[f]))

\* search_psa_entities returned after it fetched a collection, and the
\* search term was not empty
C9_Searched ==
    /\ tool = "search_psa_entities"
    /\ pc = "done"
    /\ args.search_term # NoneStr /\ args.search_term # <<>>
    /\ Len(calls) = 1
    /\ calls[1].env.success = TRUE
    /\ \/ Answered(calls[1], 204)
       \/ Answered(calls[1], 200) /\ calls[1].out.body.type = "array"

C9_Fetched == calls[1].env[locals.entity_key]

\* C9: search_psa_entities with a non-empty search_term returns, in the
\* order of the backend, exactly the fetched entities that have the term as
\* a case-insensitive substring of name, firstName, lastName, email or
\* companyName, and total_found is the number of entities returned.
C9_ExactMatches ==
    C9_Searched =>
        /\ raised = "none"
        /\ result[locals.entity_key] =
               SelectSeq(C9_Fetched, LAMBDA e : C9_TermInEntity(args.search_term, e))
        /\ "total_found" \in DOMAIN result
        /\ result.total_found = Len(result[locals.entity_key])

-----------------------------------------------------------------------------
(* C10: the tool boundary *)

\* C10: no invocation of a tool ends with an exception leaving the tool,
\* whatever the backend answered.
C10_NeverRaises == pc = "done" => raised = "none"

-----------------------------------------------------------------------------
(* C11, C12: the shape of the envelopes *)

\* the calls of the adapter methods that returned a dict
EnvelopeCalls ==
    {c \in Calls : c.adapter \in AdapterMethods /\ ~IsRaise(c.env)}

HasPayload(c) ==
    c.adapter \in DOMAIN PayloadKey /\ PayloadKey[c.adapter] \in DOMAIN c.env

HasError(c) == "error" \in DOMAIN c.env

\* the two places where a success=false envelope is built without an error
\* key: create_time_entry handing on the success field of a 200 body, and
\* create_schema / delete_schema answering any status with one shape
FailureWithoutError(c) ==
    \/ /\ c.adapter = "PSATimeEntryClient.create_time_entry"
       /\ Answered(c, 200)
       /\ c.out.body.type = "object"
    \/ /\ c.adapter \in {"WeaviateClient.create_schema", "WeaviateClient.delete_schema"}
       /\ c.out.kind = "response"

\* C11 as stated: a success=false envelope carries an error and no payload,
\* a success=true envelope carries no error
C11_AsStated ==
    \A c \in EnvelopeCalls :
        "success" \in DOMAIN c.env =>
            /\ c.env.success = FALSE => (HasError(c) /\ ~HasPayload(c))
            /\ c.env.success = TRUE => ~HasError(c)

\* C11: no envelope of an adapter method carries both its payload key and an
\* error key; a success=true envelope carries no error; a success=false
\* envelope carries an error and no payload, except that create_time_entry
\* answers a 200 body whose own success field is false with success=false,
\* the payload and no error, and create_schema / delete_schema answer a
\* failure status with success=false, message and status_code and no error.
C11_PayloadOrError ==
    \A c \in EnvelopeCalls :
        /\ ~(HasPayload(c) /\ HasError(c))
        /\ "success" \in DOMAIN c.env =>
            /\ c.env.success = TRUE => ~HasError(c)
            /\ (c.env.success = FALSE /\ ~FailureWithoutError(c)) =>
                   (HasError(c) /\ ~HasPayload(c))
            /\ (c.env.success = FALSE /\ FailureWithoutError(c)) =>
                   /\ ~HasError(c)
                   /\ HasPayload(c) = (c.adapter = "PSATimeEntryClient.create_time_entry")

\* get_ticket_notes answered a connection failure with an error and no notes
C11_Witness ==
    \E c \in EnvelopeCalls :
        /\ c.adapter = "PSATicketingClient.get_ticket_notes"
        /\ c.out.kind = "exception"
        /\ c.env.success = FALSE
        /\ c.env.error = <<"ConnectError">>
        /\ "notes" \notin DOMAIN c.env

\* the backend answered with a status the method accepts
AcceptedStatus(c) ==
    \/ Answered(c, 200)
    \/ Answered(c, 204) /\ c.adapter \in GenericPSAListMethods

\* the tools of the model whose result is no envelope: a list of tickets,
\* an aggregate with overall_success
NoEnvelopeTools ==
    {"get_tickets_by_domain", "log_bulk_time_entries", "batch_sync_domains",
     "get_psa_overview", "sync_all_connectwise_data", "log_time_with_completion"}

\* C12 as stated: every adapter method and every tool returns a dict with a
\* boolean success, true exactly when the status was an accepted one
C12_AsStated ==
    /\ \A c \in Calls :
          IF IsRaise(c.env) \/ c.adapter \notin AdapterMethods
                \/ "success" \notin DOMAIN c.env
          THEN FALSE
          ELSE c.env.success \in BOOLEAN /\ (c.env.success = AcceptedStatus(c))
    /\ (pc = "done" /\ raised = "none") =>
           IF tool = "get_tickets_by_domain" THEN FALSE
           ELSE "success" \in DOMAIN result

\* C12: every adapter method but test_connection (which reports connected)
\* and PSAClient.get_tickets_by_domain (which returns a list) returns a dict
\* with a success key; success is true only if the backend answered 200, or
\* 204 for the generic-PSA list methods, and such an answer gives success=true
\* unless decoding the 200 body failed or, for create_time_entry, the body's
\* own success field says otherwise.  Every tool that returns hands back a
\* dict with a boolean success, except get_tickets_by_domain,
\* test_weaviate_connection and the aggregating tools (log_bulk_time_entries,
\* batch_sync_domains, get_psa_overview, sync_all_connectwise_data,
\* log_time_with_completion), which report overall_success.
C12_SuccessKey ==
    /\ \A c \in EnvelopeCalls :
          IF c.adapter = "WeaviateClient.test_connection"
          THEN "success" \notin DOMAIN c.env
          ELSE /\ "success" \in DOMAIN c.env
               /\ c.env.success = TRUE => AcceptedStatus(c)
               /\ (AcceptedStatus(c) /\ c.env.success # TRUE) =>
                      /\ Answered(c, 200)
                      /\ \/ ~c.out.body.valid
                         \/ /\ c.adapter \in {"PSATimeEntryClient.create_time_entry",
                                              "PSATimeEntryClient.check_service_health"}
                            /\ \/ c.out.body.type # "object"
                               \/ c.env.success = Get(c.out.body.value, "success", TRUE)
    /\ (/\ pc = "done" /\ raised = "none"
        /\ tool \notin NoEnvelopeTools
        /\ ~(tool = "adapter_tool" /\ args.method = "WeaviateClient.test_connection")) =>
           /\ "success" \in DOMAIN result
           /\ result.success \in BOOLEAN

\* get_clients answered 204 and the tool returned its success=true envelope
C12_Witness ==
    /\ pc = "done"
    /\ tool = "adapter_tool"
    /\ Len(calls) = 1
    /\ calls[1].adapter = "PSAInitializationClient.get_clients"
    /\ Answered(calls[1], 204)
    /\ result.success = TRUE

-----------------------------------------------------------------------------
(* C13: the entity_type of search_psa_entities *)

AllowedEntityTypes ==
    {<<"c", "l", "i", "e", "n", "t", "s">>, <<"c", "o", "n", "t", "a", "c", "t", "s">>,
     <<"m", "e", "m", "b", "e", "r", "s">>}

SearchInvoked == tool = "search_psa_entities" /\ pc # "idle"

\* C13 as stated: an entity_type outside the allowed set is answered with
\* error "Validation Error" and without a request
C13_AsStated ==
    (SearchInvoked /\ args.entity_type \notin AllowedEntityTypes) =>
        /\ requests = <<>>
        /\ pc = "done"
        /\ result.success = FALSE
        /\ result.error = <<"Validation Error">>

\* C13: search_psa_entities compares entity_type with the allowed set without
\* regard to case; a value outside it is answered without any request by
\* success=false, error "Invalid entity type: <value>" and the message that
\* names clients, contacts and members; a value inside it leads to a request.
C13_InvalidEntityType ==
    SearchInvoked =>
        IF lower(args.entity_type) \notin AllowedEntityTypes
        THEN /\ requests = <<>>
             /\ pc = "done"
             /\ raised = "none"
             /\ result.success = FALSE
             /\ result.error = <<"Invalid entity type: ">> \o args.entity_type
             /\ result.message =
                    <<"Entity type must be 'clients', 'contacts', or 'members'">>
        ELSE Len(requests) = 1

\* entity_type "boards" was refused
C13_Witness ==
    /\ SearchInvoked
    /\ args.entity_type = <<"b", "o", "a", "r", "d", "s">>
    /\ pc = "done"
    /\ requests = <<>>
    /\ result.error = <<"Invalid entity type: ", "b", "o", "a", "r", "d", "s">>

-----------------------------------------------------------------------------
(* C14: timeouts of the sync methods *)

SyncMethods ==
    {"PSASyncClient.sync_tickets_for_domain", "PSASyncClient.sync_all_domains",
     "ConnectWiseSyncClient.sync_clients_contacts",
     "ConnectWiseSyncClient.sync_board_tickets"}

TimedOut(c) == c.out.kind = "exception" /\ c.out.exc = "ReadTimeout"

\* C14: a sync method whose request timed out returns success=false with
\* error "Sync operation timed out" and a message.
C14_TimeoutEnvelope ==
    \A c \in Calls :
        (c.adapter \in SyncMethods /\ TimedOut(c)) =>
            /\ ~IsRaise(c.env)
            /\ c.env.success = FALSE
            /\ c.env.error = <<"Sync operation timed out">>
            /\ "message" \in DOMAIN c.env

-----------------------------------------------------------------------------
(* C15: log_bulk_time_entries attempts every entry, in order *)

\* the i-th request is the one built for the i-th entry
RequestOfEntry(i) ==
    /\ requests[i].adapter = "PSATimeEntryClient.create_time_entry"
    /\ requests[i].json.ticketId = args.time_entries[i].ticket_id
    /\ requests[i].json.notes = args.time_entries[i].notes

\* C15: log_bulk_time_entries issues one create-time-entry request per entry,
\* in the order of the input and whatever the earlier ones answered, and
\* returns in entries one result per entry in the same order.
C15_EveryEntryAttempted ==
    tool = "log_bulk_time_entries" =>
        /\ Len(requests) <= Len(args.time_entries)
        /\ \A i \in 1..Len(requests) : RequestOfEntry(i)
        /\ pc = "done" =>
              /\ Len(requests) = Len(args.time_entries)
              /\ Len(result.entries) = Len(args.time_entries)
              /\ \A i \in 1..Len(args.time_entries) :
                    /\ result.entries[i].ticket_id = args.time_entries[i].ticket_id
                    /\ result.entries[i].success = calls[i].env.success

\* the entry of ticket 1 failed and the entry of ticket 2 was sent after it
C15_Witness ==
    /\ BulkDone
    /\ Len(args.time_entries) = 2
    /\ calls[1].env.success = FALSE
    /\ requests[1].json.ticketId = <<"1">>
    /\ requests[2].json.ticketId = <<"2">>
    /\ result.entries[1].ticket_id = <<"1">> /\ result.entries[1].success = FALSE
    /\ result.entries[2].ticket_id = <<"2">>

-----------------------------------------------------------------------------
(* C16, C17, C18: batch_sync_domains *)

BatchInvoked == tool = "batch_sync_domains" /\ pc # "idle"
BatchDone == tool = "batch_sync_domains" /\ pc = "done"

\* the sync call at position i failed or raised
SyncFailed(i) ==
    IF IsRaise(calls[i].env) THEN TRUE ELSE calls[i].env.success = FALSE

\* the aggregate as it stands: the result once returned, the local before
BatchAggregate == IF pc = "done" THEN result ELSE locals.results

\* C16: batch_sync_domains never raises and requests the sync of every domain
\* of the list in input order; when the call for a domain fails or raises,
\* the domain is recorded with success=false and an error and is counted in
\* failed, and the domains after it are still requested.
C16_BatchNeverStops ==
    BatchInvoked =>
        /\ raised = "none"
        /\ Len(requests) <= Len(args.domain_list)
        /\ \A i \in 1..Len(requests) :
              /\ requests[i].adapter = "PSASyncClient.sync_tickets_for_domain"
              /\ requests[i].params.mspCustomDomain = args.domain_list[i]
        /\ pc = "done" =>
              /\ Len(requests) = Len(args.domain_list)
              /\ Len(calls) = Len(args.domain_list)
        /\ (Len(calls) >= 1 /\ SyncFailed(Len(calls))) =>
              LET recorded == BatchAggregate.domain_results[args.domain_list[Len(calls)]]
              IN  /\ recorded.success = FALSE
                  /\ "error" \in DOMAIN recorded
                  /\ BatchAggregate.failed =
                         Cardinality({i \in 1..Len(calls) : SyncFailed(i)})

\* the call for the first domain raised, the second domain was synced
C16_Witness ==
    /\ BatchDone
    /\ args.domain_list = << <<"etech7">>, <<"msp2">> >>
    /\ IsRaise(calls[1].env)
    /\ Answered(calls[2], 200)
    /\ result.domain_results[<<"etech7">>].success = FALSE
    /\ result.domain_results[<<"msp2">>].success = TRUE
    /\ result.failed = 1

\* C17: batch_sync_domains returns successful + failed = total_domains = the
\* length of domain_list, and overall_success is true exactly when failed = 0.
C17_BatchCounts ==
    BatchDone =>
        /\ result.total_domains = Len(args.domain_list)
        /\ result.successful + result.failed = result.total_domains
        /\ result.failed = Cardinality({i \in 1..Len(calls) : SyncFailed(i)})
        /\ result.overall_success = (result.failed = 0)

\* of two domains one answered 503 and one raised: failed = 2
C17_Witness ==
    /\ BatchDone
    /\ Len(args.domain_list) = 2
    /\ Answered(calls[1], 503)
    /\ IsRaise(calls[2].env)
    /\ result.successful = 0 /\ result.failed = 2
    /\ result.overall_success = FALSE

\* C18: domain_results holds one result for every element of domain_list,
\* repeated names included: it has total_domains entries.
C18_ResultPerItem ==
    BatchDone =>
        Cardinality(DOMAIN result.domain_results) = result.total_domains

-----------------------------------------------------------------------------
(* C19: get_psa_overview *)

OverviewDone == tool = "get_psa_overview" /\ pc = "done"

\* C19: get_psa_overview always ends having issued the three fetches, clients
\* then contacts then members; each category's status is "success" or
\* "failed" as its own fetch answered, and overall_success is false exactly
\* when a category failed.
C19_ThreeFetches ==
    OverviewDone =>
        /\ raised = "none"
        /\ Len(requests) = 3
        /\ \A i \in 1..3 :
              /\ requests[i].adapter = "PSAInitializationClient.get_" \o OverviewKeys[i]
              /\ result[OverviewKeys[i]].status =
                     (IF calls[i].env.success = TRUE THEN "success" ELSE "failed")
        /\ result.overall_success = (\A i \in 1..3 : calls[i].env.success = TRUE)

-----------------------------------------------------------------------------
(* C20: sync_all_connectwise_data *)

SyncAllReturned ==
    tool = "sync_all_connectwise_data" /\ pc = "done" /\ raised = "none"

\* a sub-step of the run failed: a backend call answered with success=false
SubStepFailed == \E i \in DOMAIN calls : calls[i].env.success = FALSE

\* the board listing succeeded and listed no board
ZeroBoardsListed ==
    /\ Len(calls) = 2
    /\ calls[2].env.success = TRUE
    /\ calls[2].env.boards = <<>>

\* C20: sync_all_connectwise_data returns overall_success = true exactly when
\* no sub-step (clients/contacts sync, board listing, board-ticket sync)
\* failed, with no errors then; a run whose calls all succeed, the board
\* listing returning zero boards included, reports overall_success = true.
C20_OverallSuccess ==
    SyncAllReturned =>
        /\ result.overall_success = ~SubStepFailed
        /\ ~SubStepFailed => result.errors = <<>>

-----------------------------------------------------------------------------
(* C21: optional arguments in the outbound requests *)

\* the optional arguments of the tools and the request field each becomes
OptionalArguments ==
    [t \in {"get_psa_ticket_diagnostic"} |->
        {[field |-> "userId", arg |-> "user_id", int |-> FALSE],
         [field |-> "techId", arg |-> "tech_id", int |-> FALSE]}]
    @@ [t \in {"create_psa_ticket"} |->
        {[field |-> "userId", arg |-> "user_id", int |-> FALSE],
         [field |-> "techId", arg |-> "tech_id", int |-> FALSE],
         [field |-> "psaCompanyId", arg |-> "psa_company_id", int |-> TRUE],
         [field |-> "priorityId", arg |-> "priority_id", int |-> TRUE],
         [field |-> "categoryId", arg |-> "category_id", int |-> TRUE],
         [field |-> "subcategoryId", arg |-> "subcategory_id", int |-> TRUE]}]
    @@ [t \in {"create_psa_ticket_with_ai"} |->
        {[field |-> "userId", arg |-> "user_id", int |-> FALSE],
         [field |-> "techId", arg |-> "tech_id", int |-> FALSE],
         [field |-> "psaCompanyId", arg |-> "psa_company_id", int |-> TRUE]}]
    @@ [t \in {"create_smart_ticket"} |->
        {[field |-> "contactId", arg |-> "contact_id", int |-> TRUE]}]
    @@ [t \in {"log_time_with_completion"} |->
        {[field |-> "boardId", arg |-> "board_id", int |-> TRUE]}]

\* the request carries the field, as a query parameter or in its JSON body
HasField(req, f) ==
    \/ "params" \in DOMAIN req /\ f \in DOMAIN req.params
    \/ "json" \in DOMAIN req /\ f \in DOMAIN req.json

\* the caller supplied a truthy value for the optional argument
Supplied(o) == IF o.int THEN TruthyInt(args[o.arg]) ELSE TruthyStr(args[o.arg])

-----------------------------------------------------------------------------
(* C22: the categorization fields of the ticket-creation request *)

\* the tool has issued its ticket-creation request from the upstream payload
CreateIssued ==
    /\ tool \in {"create_smart_ticket", "create_psa_ticket_with_ai"}
    /\ Len(requests) = 2

\* the payload of the upstream step and the body of the creation request
Upstream == calls[1].out.body.value
Downstream == requests[2].json

CategorizationFields == {"categoryId", "subcategoryId", "priorityId", "statusId"}

\* C22 as stated: category, subcategory, priority, status and board id are in
\* the ticket-creation request only if the upstream payload contains them
C22_AsStated ==
    CreateIssued =>
        \A f \in CategorizationFields \cup {"boardId"} :
            f \in DOMAIN Downstream => f \in DOMAIN Upstream

\* C22: category, subcategory and priority (and, in create_smart_ticket,
\* status) are copied into the ticket-creation request exactly when the
\* upstream payload holds a truthy value for them; boardId is always in the
\* request: the upstream value, or null (create_smart_ticket) or 1
\* (create_psa_ticket_with_ai) when the payload lacks it
C22_CopiedIfPresent ==
    CreateIssued =>
        /\ \A f \in CategorizationFields :
              IF TruthyInt(Get(Upstream, f, NoneInt))
                    /\ ~(f = "statusId" /\ tool = "create_psa_ticket_with_ai")
              THEN f \in DOMAIN Downstream /\ Downstream[f] = Upstream[f]
              ELSE f \notin DOMAIN Downstream
        /\ "boardId" \in DOMAIN Downstream
        /\ Downstream.boardId =
              Get(Upstream, "boardId",
                  IF tool = "create_smart_ticket" THEN NoneInt ELSE 1)

\* the upstream payload had a priority of 0 and no subcategory: neither is
\* in the creation request
C22_Witness ==
    /\ CreateIssued
    /\ "priorityId" \in DOMAIN Upstream
    /\ "subcategoryId" \notin DOMAIN Upstream
    /\ "priorityId" \notin DOMAIN Downstream
    /\ Downstream.boardId = 2

-----------------------------------------------------------------------------
(* C23, C24: the filter of search_psa_entities *)

\* search_psa_entities returned after its fetch
SearchReturned ==
    /\ tool = "search_psa_entities"
    /\ pc = "done"
    /\ raised = "none"
    /\ Len(calls) = 1

FilterKeys == {"filtered", "search_term", "total_found"}

\* C23: search_psa_entities called with a null or empty search_term returns
\* the adapter's envelope unchanged: the whole fetched collection in backend
\* order, and none of the keys filtered, search_term, total_found.
C23_NoTermUnchanged ==
    (SearchReturned /\ args.search_term \in {NoneStr, <<>>}) =>
        /\ result = calls[1].env
        /\ DOMAIN result \cap FilterKeys = {}
        /\ (Answered(calls[1], 200) /\ calls[1].out.body.valid) =>
               result[locals.entity_key] = calls[1].out.body.value

\* an empty search term and a fetched collection of two entities
C23_Witness ==
    /\ SearchReturned
    /\ args.search_term = <<>>
    /\ result.success = TRUE
    /\ calls[1].out.body.type = "array"
    /\ Len(result[locals.entity_key]) = 2

\* C24: every successful search_psa_entities call that was given a search
\* term returns the filtered sequence with filtered=true, search_term equal
\* to the term and total_found equal to the length of the returned sequence,
\* whatever the size of the fetched collection.
C24_FilteredShape ==
    (SearchReturned /\ TruthyStr(args.search_term) /\ result.success = TRUE) =>
        /\ FilterKeys \subseteq DOMAIN result
        /\ result.filtered = TRUE
        /\ result.search_term = args.search_term
        /\ result.total_found = Len(result[locals.entity_key])

-----------------------------------------------------------------------------
(* C25, C26: one request at a time, and none twice *)

\* the requests issued and not yet answered
InFlight == Len(requests) - Len(calls)

\* C25: within one tool invocation at most one outbound request is in flight:
\* a step issues at most one request, and only when every earlier request of
\* the invocation has returned or failed, also in the tools that iterate over
\* independent items.
C25_OneInFlight ==
    [][Len(requests') > Len(requests) =>
          /\ Len(requests') = Len(requests) + 1
          /\ Len(calls') = Len(requests)]_vars

\* log_bulk_time_entries waits for its second request, the first answered
C25_Witness ==
    /\ tool \in {"log_bulk_time_entries", "batch_sync_domains", "get_psa_overview"}
    /\ pc = "await"
    /\ Len(requests) = 2
    /\ Len(calls) = 1

\* the requests a tool issues at most, by its arguments
PlannedRequests ==
    CASE tool = "log_bulk_time_entries" -> Len(args.time_entries)
      [] tool = "batch_sync_domains" -> Len(args.domain_list)
      [] tool \in {"get_psa_overview", "sync_all_connectwise_data"} -> 3
      [] tool \in {"create_psa_ticket_with_ai", "create_smart_ticket",
                   "log_time_with_completion", "sync_psa_with_status_check",
                   "create_weaviate_schema"} -> 2
      [] tool = "none" -> 0
      [] OTHER -> 1

\* C26: nothing is retried: every adapter call is one request, whatever its
\* outcome, and a composite tool issues each of its sub-calls at most once,
\* one per item in the tools that loop, also after a failure.
C26_NothingRetried ==
    /\ InFlight = (IF pc \in {"await", "resume"} THEN 1 ELSE 0)
    /\ Len(requests) <= PlannedRequests
    /\ tool \notin {"log_bulk_time_entries", "batch_sync_domains"} =>
          \A i, j \in DOMAIN requests :
              i # j => requests[i].adapter # requests[j].adapter

\* a sub-call failed and the tool went on to the next one, not back to it
C26_Witness ==
    /\ tool = "get_psa_overview"
    /\ Len(requests) = 2
    /\ calls[1].env.success = FALSE
    /\ requests[2].adapter = "PSAInitializationClient.get_contacts"

-----------------------------------------------------------------------------
(* C27: nothing is shared between invocations *)

-----------------------------------------------------------------------------
(* C28: log_time_with_completion *)

LogTimeDone == tool = "log_time_with_completion" /\ pc = "done"

\* the close-ticket request was issued
ClosureAttempted == Len(requests) = 2

\* C28: log_time_with_completion issues the close-ticket request exactly when
\* close_ticket is true and the time-entry call succeeded, and after that
\* call; ticket_closure stays null otherwise, and overall_success is true
\* exactly when the time entry succeeded and the closure, if attempted,
\* succeeded.
C28_ClosureAfterTimeEntry ==
    LogTimeDone =>
        /\ raised = "none"
        /\ requests[1].adapter = "PSATimeEntryClient.create_time_entry"
        /\ result.time_entry = calls[1].env
        /\ ClosureAttempted <=> (args.close_ticket /\ calls[1].env.success = TRUE)
        /\ IF ClosureAttempted
           THEN /\ requests[2].adapter = "PSATicketingClient.close_ticket"
                /\ result.ticket_closure = calls[2].env
                /\ result.overall_success = (calls[2].env.success = TRUE)
           ELSE /\ Len(requests) = 1
                /\ result.ticket_closure = JNull
                /\ result.overall_success = (calls[1].env.success = TRUE)

\* the time entry was logged and the closure asked for failed
C28_Witness ==
    /\ LogTimeDone
    /\ ClosureAttempted
    /\ calls[1].env.success = TRUE
    /\ calls[2].env.success = FALSE
    /\ result.overall_success = FALSE

-----------------------------------------------------------------------------
(* C29: sync_psa_with_status_check *)

StatusCheckInvoked == tool = "sync_psa_with_status_check" /\ pc # "idle"

\* the listing of the clients was asked for and did not succeed
CheckFailed ==
    /\ args.check_integration_first
    /\ Len(calls) >= 1
    /\ calls[1].env.success # TRUE

\* C29: with check_integration_first the sync request of
\* sync_psa_with_status_check is issued only after the listing of the clients
\* succeeded; when the listing fails the tool returns success=false,
\* integration_check="failed" and a null sync_result without a sync request;
\* when the check passes or is skipped, the success of the result is the
\* success of the sync envelope.
C29_SyncAfterCheck ==
    StatusCheckInvoked =>
        /\ \A i \in DOMAIN requests :
              requests[i].adapter = "PSASyncClient.sync_tickets_for_domain" =>
                  IF args.check_integration_first
                  THEN i = 2 /\ calls[1].env.success = TRUE
                  ELSE i = 1
        /\ args.check_integration_first =>
              requests[1].adapter = "PSAInitializationClient.get_clients"
        /\ (pc = "done" /\ raised = "none") =>
              IF CheckFailed
              THEN /\ Len(requests) = 1
                   /\ result.success = FALSE
                   /\ result.integration_check = <<"failed">>
                   /\ result.sync_result = JNull
              ELSE /\ requests[Len(requests)].adapter =
                          "PSASyncClient.sync_tickets_for_domain"
                   /\ result.sync_result = calls[Len(calls)].env
                   /\ result.success = calls[Len(calls)].env.success
                   /\ result.integration_check =
                          (IF args.check_integration_first THEN <<"passed">>
                           ELSE NoneStr)

\* the check failed and the tool returned without a sync request
C29_Witness ==
    /\ StatusCheckInvoked
    /\ pc = "done"
    /\ CheckFailed
    /\ Len(requests) = 1
    /\ result.integration_check = <<"failed">>

-----------------------------------------------------------------------------
(* C30: create_weaviate_schema *)

CreateSchemaDone == tool = "create_weaviate_schema" /\ pc = "done"

\* the existence check succeeded and reported that the schema exists
SchemaKnownToExist ==
    /\ calls[1].env.success = TRUE
    /\ calls[1].env.schema_exists = TRUE

\* C30: create_weaviate_schema never issues the create request when the
\* existence check succeeded and reported that the schema exists, and then
\* returns success=true with status "already_exists"; in every other case,
\* a failed check included, it issues exactly one create request and returns
\* the envelope of that call.
C30_CreateUnlessExists ==
    CreateSchemaDone =>
        /\ raised = "none"
        /\ requests[1].adapter = "WeaviateClient.check_schema_exists"
        /\ IF SchemaKnownToExist
           THEN /\ Len(requests) = 1
                /\ result.success = TRUE
                /\ result.status = <<"already_exists">>
           ELSE /\ Len(requests) = 2
                /\ requests[2].adapter = "WeaviateClient.create_schema"
                /\ result = calls[2].env

\* the existence check failed and the schema was created all the same
C30_Witness ==
    /\ CreateSchemaDone
    /\ calls[1].env.success = FALSE
    /\ Len(requests) = 2
    /\ result.success = TRUE

====
